---- MODULE Spec2Model ----
(***************************************************************************)
(* The zoom / transition engine of the Powers of Ten viewer:                *)
(* ZoomController (src/zoom_controller.py), the per-image                   *)
(* TransitionManager (src/src/transition_manager.py), the catalog position  *)
(* of ImageManager (src/image_manager.py) and the run loop of ZoomViewer    *)
(* (src/src/viewer.py).                                                     *)
(*                                                                          *)
(* Numbers.  A scale is a Python float; here it is a fixed-point number,    *)
(* an integer count of 1/Unit, and every product or quotient is rounded to  *)
(* the nearest count, as the float operation is rounded to the nearest      *)
(* float.  Times are the integer milliseconds of pygame.time.get_ticks().   *)
(***************************************************************************)
EXTENDS Integers, Sequences, FiniteSets, TLC

VARIABLES
    now,            \* pygame.time.get_ticks() of the run-loop iteration about to run
    clock_time,     \* clock.get_time(): the duration of the previous iteration, ms
    images,         \* ImageManager.images, each image's max_scale
    transitions,    \* TransitionManager.transitions, a frame list per image
    current_index,  \* ImageManager.current_index
    zc,             \* the ZoomController's fields
    tm,             \* the TransitionManager's playback fields
    ev,             \* what the last operation did: its inputs and return values
    harness         \* which harness drives the components, and its bookkeeping

vars == <<now, clock_time, images, transitions, current_index, zc, tm, ev, harness>>

(***************************************************************************)
(* Bounds of the model.                                                    *)
(***************************************************************************)
Unit == 10000
MaxTime == 1500
MaxE2ETime == 2600
MaxSweepTime == 2000
MaxAfterSweep == 2
MaxZoomTotal == 1000
MaxPlayerTime == 1200
MaxDrainTime == 1000
MaxControllerTime == 700
MaxInputTime == 1100
MaxKeysTime == 700
MaxEvents == 2
MaxPygameTime == 1000
TotalFrames == 7
MaxWorkers == 2
\* CACHE_SIZE of src/image_sequence_player.py is 200; the cache here holds 2 frames
CACHE_SIZE == 2

(***************************************************************************)
(* Program constants.                                                      *)
(***************************************************************************)
animation_duration == 300
step_zoom_factor_num == 13
step_zoom_factor_den == 10
transition_fps == 30
key_delay == 200
preload_count == 60
initial_preload_count == 50

None == -1
NoDir == "none"

\* a * num / den, rounded to the nearest count (a, num, den >= 0, den > 0)
MulRat(a, num, den) == (a * num + (den \div 2)) \div den

\* ZoomController.min_scale, the float 1.0
min_scale == Unit

(***************************************************************************)
(* ZoomController, src/zoom_controller.py                                  *)
(***************************************************************************)
\* ZoomController.__init__
ZoomControllerInit ==
    [ scale |-> Unit,
      current_max_scale |-> Unit,
      target_scale |-> Unit,
      start_scale |-> Unit,
      animation_start_time |-> None,
      is_animating |-> FALSE,
      continuous_zoom_active |-> FALSE ]

\* start_zoom_animation carrying on from the start of the animation in flight
start_zoom_animation_keeps_start(z, target, t) ==
    [z EXCEPT !.is_animating = TRUE,
              !.animation_start_time = IF z.is_animating THEN @ ELSE t,
              !.target_scale = target,
              !.start_scale = IF z.is_animating THEN @ ELSE z.scale]

\* start_zoom_animation(target_scale) at clock reading t; start_scale defaults to scale
start_zoom_animation(z, target, t) ==
    [z EXCEPT !.is_animating = TRUE,
              !.animation_start_time = t,
              !.target_scale = target,
              !.start_scale = z.scale]

\* zoom_step jumping to the new scale
zoom_step_immediate(z, direction, t) ==
    IF direction = "in"
    THEN [z EXCEPT !.scale = MulRat(z.scale, step_zoom_factor_num, step_zoom_factor_den)]
    ELSE IF direction = "out"
    THEN [z EXCEPT !.scale = MulRat(z.scale, step_zoom_factor_den, step_zoom_factor_num)]
    ELSE z

\* zoom_step(direction) at clock reading t
zoom_step(z, direction, t) ==
    IF direction = "in"
    THEN start_zoom_animation(z, MulRat(z.scale, step_zoom_factor_num, step_zoom_factor_den), t)
    ELSE IF direction = "out"
    THEN start_zoom_animation(z, MulRat(z.scale, step_zoom_factor_den, step_zoom_factor_num), t)
    ELSE z

\* The frame durations (ms) for which continuous_zoom_rate ** dt is tabulated
ZoomDts == {0, 50, 100, 150, 200, 250, 300, 350, 400, 450, 500,
            550, 600, 650, 700, 750, 800, 850, 900, 950, 1000}

\* continuous_zoom_rate ** dt for continuous_zoom_rate = 2.0 and dt = ms / 1000,
\* as a count of 1/10000
zoom_factor(ms) ==
    CASE ms = 0 -> 10000   [] ms = 50 -> 10353  [] ms = 100 -> 10718
      [] ms = 150 -> 11096 [] ms = 200 -> 11487 [] ms = 250 -> 11892
      [] ms = 300 -> 12311 [] ms = 350 -> 12746 [] ms = 400 -> 13195
      [] ms = 450 -> 13660 [] ms = 500 -> 14142 [] ms = 550 -> 14641
      [] ms = 600 -> 15157 [] ms = 650 -> 15692 [] ms = 700 -> 16245
      [] ms = 750 -> 16818 [] ms = 800 -> 17411 [] ms = 850 -> 18025
      [] ms = 900 -> 18661 [] ms = 950 -> 19319 [] ms = 1000 -> 20000

\* zoom_continuous changing the scale by a fixed percentage per call, whatever dt
continuous_scale_per_frame(s, direction, ms) ==
    IF direction = "in" THEN MulRat(s, zoom_factor(50), 10000)
    ELSE IF direction = "out" THEN MulRat(s, 10000, zoom_factor(50))
    ELSE s

\* the scale zoom_continuous(direction, dt) leaves, from scale s
continuous_scale(s, direction, ms) ==
    IF direction = "in" THEN MulRat(s, zoom_factor(ms), 10000)
    ELSE IF direction = "out" THEN MulRat(s, 10000, zoom_factor(ms))
    ELSE s

\* zoom_continuous(direction, dt), dt = ms / 1000
zoom_continuous(z, direction, ms) ==
    [z EXCEPT !.scale = continuous_scale(z.scale, direction, ms),
              !.continuous_zoom_active = TRUE]

\* _check_boundaries() with the bounds themselves outside the range
check_boundaries_inclusive(z) ==
    IF z.scale >= z.current_max_scale THEN "forward"
    ELSE IF z.scale <= min_scale THEN "backward"
    ELSE NoDir

\* _check_boundaries(): the direction, or NoDir for Python's None
check_boundaries(z) ==
    IF z.scale > z.current_max_scale THEN "forward"
    ELSE IF z.scale < min_scale THEN "backward"
    ELSE NoDir

\* start_scale + (target_scale - start_scale) * (elapsed / animation_duration),
\* for elapsed < animation_duration
interpolate(z, elapsed) ==
    IF z.target_scale >= z.start_scale
    THEN z.start_scale + MulRat(z.target_scale - z.start_scale, elapsed, animation_duration)
    ELSE z.start_scale - MulRat(z.start_scale - z.target_scale, elapsed, animation_duration)

\* update_step_animation with the crossing not ending the animation
update_step_animation_not_cancelled(z, t) ==
    LET elapsed == t - z.animation_start_time IN
    IF elapsed >= animation_duration
    THEN LET done == [z EXCEPT !.is_animating = FALSE, !.scale = z.target_scale]
         IN  [zc |-> done, boundary |-> check_boundaries(done)]
    ELSE LET moved == [z EXCEPT !.scale = interpolate(z, elapsed)]
         IN  [zc |-> moved, boundary |-> check_boundaries(moved)]

\* update_step_animation with the progress not clamped to 1: the end of the
\* animation leaves the scale interpolated at the elapsed time
update_step_animation_unclamped(z, t) ==
    LET elapsed == t - z.animation_start_time
        moved   == [z EXCEPT !.scale = interpolate(z, elapsed)]
        swapped == check_boundaries(moved)
    IN  [zc |-> IF swapped # NoDir \/ elapsed >= animation_duration
                THEN [moved EXCEPT !.is_animating = FALSE] ELSE moved,
         boundary |-> swapped]

\* update_step_animation() at clock reading t: the fields it leaves and what it returns
update_step_animation(z, t) ==
    LET elapsed == t - z.animation_start_time IN
    IF elapsed >= animation_duration
    THEN LET done == [z EXCEPT !.is_animating = FALSE, !.scale = z.target_scale]
         IN  [zc |-> done, boundary |-> check_boundaries(done)]
    ELSE LET moved   == [z EXCEPT !.scale = interpolate(z, elapsed)]
             swapped == check_boundaries(moved)
         IN  [zc |-> IF swapped # NoDir THEN [moved EXCEPT !.is_animating = FALSE] ELSE moved,
              boundary |-> swapped]

\* update() at clock reading t
update(z, t) ==
    IF z.is_animating THEN update_step_animation(z, t)
    ELSE IF z.continuous_zoom_active
    THEN [zc |-> [z EXCEPT !.continuous_zoom_active = FALSE], boundary |-> check_boundaries(z)]
    ELSE [zc |-> z, boundary |-> NoDir]

\* set_max_scale() not storing the value
set_max_scale_ignored(z, max_scale) == z

set_max_scale(z, max_scale) == [z EXCEPT !.current_max_scale = max_scale]

\* clamp_scale() clamping at min_scale only
clamp_scale_below_only(z) ==
    IF z.scale < min_scale THEN [z EXCEPT !.scale = min_scale] ELSE z

clamp_scale(z) ==
    IF z.scale > z.current_max_scale THEN [z EXCEPT !.scale = z.current_max_scale]
    ELSE IF z.scale < min_scale THEN [z EXCEPT !.scale = min_scale]
    ELSE z

reset_to_min(z) == [z EXCEPT !.scale = min_scale]

reset_to_max(z) == [z EXCEPT !.scale = z.current_max_scale]

(***************************************************************************)
(* TransitionManager, src/src/transition_manager.py                        *)
(***************************************************************************)
\* TransitionManager.__init__
TransitionManagerInit ==
    [ transition_idx |-> 0,
      is_transitioning |-> FALSE,
      current_transition_frames |-> <<>>,
      transition_frame_index |-> 0,
      transition_start_time |-> None,
      transition_direction |-> NoDir ]

\* Python's list[i] for -len <= i < len: a negative index counts from the end
PyItem(list, i) == IF i >= 0 THEN list[i + 1] ELSE list[Len(list) + i + 1]

\* start_transition playing the current image's sequence in both directions
start_transition_current(m, trs, direction, t) ==
    [m EXCEPT !.current_transition_frames = PyItem(trs, m.transition_idx),
              !.is_transitioning = TRUE,
              !.transition_frame_index = 0,
              !.transition_start_time = t,
              !.transition_direction = direction]

\* start_transition(direction) at clock reading t, trs = self.transitions
start_transition(m, trs, direction, t) ==
    LET idx == IF direction = "forward" THEN m.transition_idx ELSE m.transition_idx - 1
    IN  [m EXCEPT !.current_transition_frames = PyItem(trs, idx),
                  !.is_transitioning = TRUE,
                  !.transition_frame_index = 0,
                  !.transition_start_time = t,
                  !.transition_direction = direction]

\* The elapsed times (ms, below 3400) at which the float quotient
\* elapsed / (1000 / 30) falls just below the whole number elapsed * 30 / 1000:
\* 1000 / 30 is the float 33.333333333333336
FloatShortfall == {500, 900, 1000, 1700, 1800, 1900, 2000, 2100}

\* target_frame with the frame duration cut to whole milliseconds (1000 // 30)
target_frame_whole_ms(elapsed) == elapsed \div (1000 \div transition_fps)

\* target_frame = int(elapsed / frame_duration), frame_duration = 1000 / transition_fps
target_frame(elapsed) ==
    IF elapsed \in FloatShortfall
    THEN (elapsed * transition_fps) \div 1000 - 1
    ELSE (elapsed * transition_fps) \div 1000

\* update() with the empty frame list never completing, as in the
\* single-directory manager
transition_update_ignores_empty(m, t) ==
    IF ~m.is_transitioning \/ Len(m.current_transition_frames) = 0
    THEN [tm |-> m, complete |-> FALSE]
    ELSE
    LET elapsed == t - m.transition_start_time
        target  == target_frame(elapsed)
        n       == Len(m.current_transition_frames)
    IN  IF target >= n
        THEN [tm |-> [m EXCEPT !.is_transitioning = FALSE,
                               !.transition_idx = IF m.transition_direction = "forward"
                                                  THEN @ + 1 ELSE @ - 1],
              complete |-> TRUE]
        ELSE [tm |-> [m EXCEPT !.transition_frame_index =
                                    IF m.transition_direction = "backward"
                                    THEN n - 1 - target ELSE target],
              complete |-> FALSE]

\* update() stepping one frame per call instead of reading the clock
transition_update_per_call(m, t) ==
    IF ~m.is_transitioning THEN [tm |-> m, complete |-> FALSE]
    ELSE
    LET n      == Len(m.current_transition_frames)
        shown  == IF m.transition_direction = "backward" /\ m.transition_start_time # t
                  THEN n - 1 - m.transition_frame_index ELSE m.transition_frame_index
        target == IF m.transition_start_time = t THEN 0 ELSE shown + 1
    IN  IF target >= n
        THEN [tm |-> [m EXCEPT !.is_transitioning = FALSE,
                               !.transition_idx = IF m.transition_direction = "forward"
                                                  THEN @ + 1 ELSE @ - 1],
              complete |-> TRUE]
        ELSE [tm |-> [m EXCEPT !.transition_frame_index =
                                    IF m.transition_direction = "backward"
                                    THEN n - 1 - target ELSE target],
              complete |-> FALSE]

\* update() completing only once target_frame is past the frame count
transition_update_off_by_one(m, t) ==
    IF ~m.is_transitioning THEN [tm |-> m, complete |-> FALSE]
    ELSE
    LET elapsed == t - m.transition_start_time
        target  == target_frame(elapsed)
        n       == Len(m.current_transition_frames)
    IN  IF target > n
        THEN [tm |-> [m EXCEPT !.is_transitioning = FALSE,
                               !.transition_idx = IF m.transition_direction = "forward"
                                                  THEN @ + 1 ELSE @ - 1],
              complete |-> TRUE]
        ELSE [tm |-> [m EXCEPT !.transition_frame_index =
                                    IF m.transition_direction = "backward"
                                    THEN n - 1 - target ELSE target],
              complete |-> FALSE]

\* update() at clock reading t: the fields it leaves and what it returns
transition_update(m, t) ==
    IF ~m.is_transitioning THEN [tm |-> m, complete |-> FALSE]
    ELSE
    LET elapsed == t - m.transition_start_time
        target  == target_frame(elapsed)
        n       == Len(m.current_transition_frames)
    IN  IF target >= n
        THEN [tm |-> [m EXCEPT !.is_transitioning = FALSE,
                               !.transition_idx = IF m.transition_direction = "forward"
                                                  THEN @ + 1 ELSE @ - 1],
              complete |-> TRUE]
        ELSE [tm |-> [m EXCEPT !.transition_frame_index =
                                    IF m.transition_direction = "backward"
                                    THEN n - 1 - target ELSE target],
              complete |-> FALSE]

\* get_current_frame(): the frame, or None
get_current_frame(m) ==
    IF m.transition_frame_index < Len(m.current_transition_frames)
    THEN m.current_transition_frames[m.transition_frame_index + 1]
    ELSE None

is_active(m) == m.is_transitioning

(***************************************************************************)
(* ImageManager, src/image_manager.py: the catalog position                *)
(***************************************************************************)
can_go_next(imgs, index) == index < Len(imgs) - 1

can_go_previous(index) == index > 0

\* set_image(index): the current_index it leaves
set_image(imgs, index, new) == IF 0 <= new /\ new < Len(imgs) THEN new ELSE index

\* get_current_image().max_scale
current_max(imgs, index) == imgs[index + 1]

(***************************************************************************)
(* ZoomViewer, src/src/viewer.py                                           *)
(***************************************************************************)
\* _handle_input acting on the keys whether or not a transition is active
handle_input_during_transition(z, active, step, cont, ms, t) ==
    LET stepped == IF step # NoDir THEN zoom_step(z, step, t) ELSE z
    IN  IF cont # NoDir THEN zoom_continuous(stepped, cont, ms) ELSE stepped

\* _handle_input(dt): the actions process_events returns are a step for a key
\* pressed in this iteration, then continuous zoom for a key held; none while a
\* transition is active
handle_input(z, active, step, cont, ms, t) ==
    IF active THEN z
    ELSE LET stepped == IF step # NoDir THEN zoom_step(z, step, t) ELSE z
         IN  IF cont # NoDir THEN zoom_continuous(stepped, cont, ms) ELSE stepped

\* _handle_boundary_transition leaving the scale where it is when no neighbour exists
handle_boundary_transition_unclamped(z, m, imgs, trs, index, direction, t) ==
    LET next_image_exists == IF direction = "forward" THEN can_go_next(imgs, index)
                             ELSE can_go_previous(index)
    IN  IF next_image_exists
        THEN [zc |-> z, tm |-> start_transition(m, trs, direction, t), started |-> TRUE]
        ELSE [zc |-> z, tm |-> m, started |-> FALSE]

\* _handle_boundary_transition starting the transition without asking the
\* catalog for a neighbour
handle_boundary_transition_unchecked(z, m, imgs, trs, index, direction, t) ==
    [zc |-> z, tm |-> start_transition(m, trs, direction, t), started |-> TRUE]

\* _handle_boundary_transition(boundary_direction) at clock reading t
handle_boundary_transition(z, m, imgs, trs, index, direction, t) ==
    LET next_image_exists == IF direction = "forward" THEN can_go_next(imgs, index)
                             ELSE can_go_previous(index)
    IN  IF next_image_exists
        THEN [zc |-> z, tm |-> start_transition(m, trs, direction, t), started |-> TRUE]
        ELSE [zc |-> clamp_scale(z), tm |-> m, started |-> FALSE]

\* _update_state moving the catalog as soon as a transition starts
update_state_moves_at_start(z, m, imgs, trs, index, t) ==
    LET u  == update(z, t)
        hb == IF u.boundary # NoDir
              THEN handle_boundary_transition(u.zc, m, imgs, trs, index, u.boundary, t)
              ELSE [zc |-> u.zc, tm |-> m, started |-> FALSE]
        tu == transition_update(hb.tm, t)
        ix == IF hb.started
              THEN set_image(imgs, index, IF u.boundary = "forward" THEN index + 1 ELSE index - 1)
              ELSE index
        zm == set_max_scale(hb.zc, current_max(imgs, ix))
        zr == IF tu.tm.transition_direction = "backward" THEN reset_to_max(zm)
              ELSE reset_to_min(zm)
    IN  [ zc |-> IF tu.complete THEN zr ELSE hb.zc,
          tm |-> tu.tm,
          index |-> ix,
          boundary |-> u.boundary,
          updated |-> u.zc,
          started |-> hb.started,
          complete |-> tu.complete ]

\* _update_state landing at min_scale after every transition
update_state_lands_at_min(z, m, imgs, trs, index, t) ==
    LET u  == update(z, t)
        hb == IF u.boundary # NoDir
              THEN handle_boundary_transition(u.zc, m, imgs, trs, index, u.boundary, t)
              ELSE [zc |-> u.zc, tm |-> m, started |-> FALSE]
        tu == transition_update(hb.tm, t)
        ix == IF tu.complete THEN set_image(imgs, index, tu.tm.transition_idx) ELSE index
        zm == set_max_scale(hb.zc, current_max(imgs, ix))
    IN  [ zc |-> IF tu.complete THEN reset_to_min(zm) ELSE hb.zc,
          tm |-> tu.tm,
          index |-> ix,
          boundary |-> u.boundary,
          updated |-> u.zc,
          started |-> hb.started,
          complete |-> tu.complete ]

\* _update_state leaving the scale alone when the transition completes
update_state_keeps_scale(z, m, imgs, trs, index, t) ==
    LET u  == update(z, t)
        hb == IF u.boundary # NoDir
              THEN handle_boundary_transition(u.zc, m, imgs, trs, index, u.boundary, t)
              ELSE [zc |-> u.zc, tm |-> m, started |-> FALSE]
        tu == transition_update(hb.tm, t)
        ix == IF tu.complete THEN set_image(imgs, index, tu.tm.transition_idx) ELSE index
        zm == set_max_scale(hb.zc, current_max(imgs, ix))
    IN  [ zc |-> IF tu.complete THEN zm ELSE hb.zc,
          tm |-> tu.tm,
          index |-> ix,
          boundary |-> u.boundary,
          updated |-> u.zc,
          started |-> hb.started,
          complete |-> tu.complete ]

\* _update_state() at clock reading t: the fields of the three components it
\* leaves, with update()'s return value, the controller as update() left it and
\* the transition update's return value
update_state(z, m, imgs, trs, index, t) ==
    LET u  == update(z, t)
        hb == IF u.boundary # NoDir
              THEN handle_boundary_transition(u.zc, m, imgs, trs, index, u.boundary, t)
              ELSE [zc |-> u.zc, tm |-> m, started |-> FALSE]
        tu == transition_update(hb.tm, t)
        ix == IF tu.complete THEN set_image(imgs, index, tu.tm.transition_idx) ELSE index
        zm == set_max_scale(hb.zc, current_max(imgs, ix))
        zr == IF tu.tm.transition_direction = "backward" THEN reset_to_max(zm)
              ELSE reset_to_min(zm)
    IN  [ zc |-> IF tu.complete THEN zr ELSE hb.zc,
          tm |-> tu.tm,
          index |-> ix,
          boundary |-> u.boundary,
          updated |-> u.zc,
          started |-> hb.started,
          complete |-> tu.complete ]

(***************************************************************************)
(* The viewer: one action per iteration of ZoomViewer.run                  *)
(***************************************************************************)
Dirs == {"in", "out"}

\* The durations (ms) an iteration of the run loop may take: clock.tick(60)
\* only keeps an iteration from being shorter than a sixtieth of a second
FrameTimes == {100, 350}

\* the catalog the viewer loads: image 0 zooms to 1.2 and has a six-frame
\* transition, image 1 zooms to 1.1 and has no transition folder, image 2 has
\* no target rectangle
ViewerImages == << (12 * Unit) \div 10, (11 * Unit) \div 10, Unit >>

ViewerTransitions == << <<1, 2, 3, 4, 5, 6>>, <<>>, <<>> >>

\* ev records the last operation: the keys it read (step, cont), whether a
\* transition was active when it read them, the clock reading t it ran at, the
\* controller as the input left it and as update() left it, and what update(),
\* _handle_boundary_transition and the transition's update() returned
NoEvent ==
    [ op |-> "init", step |-> NoDir, cont |-> NoDir, active |-> FALSE,
      t |-> 0, input |-> ZoomControllerInit, updated |-> ZoomControllerInit,
      boundary |-> NoDir, started |-> FALSE, complete |-> FALSE ]

\* ZoomViewer.__init__ with the catalog (imgs, trs)
ViewerInit(imgs, trs) ==
    /\ now = 0
    /\ clock_time = 0
    /\ images = imgs
    /\ transitions = trs
    /\ current_index = 0
    /\ zc = set_max_scale(ZoomControllerInit, current_max(imgs, 0))
    /\ tm = TransitionManagerInit
    /\ ev = NoEvent

\* One iteration of run(): _handle_input(dt), _update_state(), then the frame is
\* drawn and clock.tick ends the iteration after next_ms milliseconds
RunLoop(step, cont, next_ms) ==
    LET active == is_active(tm)
        inp    == handle_input(zc, active, step, cont, clock_time, now)
        r      == update_state(inp, tm, images, transitions, current_index, now)
    IN  /\ zc' = r.zc
        /\ tm' = r.tm
        /\ current_index' = r.index
        /\ ev' = [ op |-> "tick",
                   step |-> IF active THEN NoDir ELSE step,
                   cont |-> IF active THEN NoDir ELSE cont,
                   active |-> active,
                   t |-> now, input |-> inp, updated |-> r.updated,
                   boundary |-> r.boundary, started |-> r.started,
                   complete |-> r.complete ]
        /\ now' = now + next_ms
        /\ clock_time' = next_ms
        /\ UNCHANGED <<images, transitions>>

RunLoopIteration(step, cont, next_ms) ==
    /\ RunLoop(step, cont, next_ms)
    /\ UNCHANGED harness

Init ==
    /\ ViewerInit(ViewerImages, ViewerTransitions)
    /\ harness = [kind |-> "viewer"]

Next ==
    \E step \in Dirs \cup {NoDir}, cont \in Dirs \cup {NoDir}, next_ms \in FrameTimes :
        /\ now + next_ms <= MaxTime
        /\ RunLoopIteration(step, cont, next_ms)

Spec == Init /\ [][Next]_vars

\* run() iterates for as long as the viewer is open: the window of time
\* examined closes at MaxTime, or when the transition then playing has ended,
\* and no later than MaxDrainTime after MaxTime
NextWhileOpen ==
    \E step \in Dirs \cup {NoDir}, cont \in Dirs \cup {NoDir}, next_ms \in FrameTimes :
        /\ now + next_ms <= MaxTime \/ (is_active(tm) /\ now + next_ms <= MaxTime + MaxDrainTime)
        /\ RunLoopIteration(step, cont, next_ms)

\* clock.tick(self.FPS) ends every iteration of the while loop and the loop
\* takes the next: in every step of NextWhileOpen the clock moves on
ClockAdvances ==
    \E next_ms \in FrameTimes :
        /\ now + next_ms <= MaxTime \/ (is_active(tm) /\ now + next_ms <= MaxTime + MaxDrainTime)
        /\ now' = now + next_ms

\* the while loop of run() takes its next iteration whenever it can
SpecLive == Init /\ [][NextWhileOpen]_vars /\ WF_now(ClockAdvances)

(***************************************************************************)
(* The viewer on a catalog whose second image configures a target          *)
(* rectangle twice the size of the image: _calculate_max_scale gives that  *)
(* image max_scale 0.5                                                     *)
(***************************************************************************)
OversizedRectImages == << (12 * Unit) \div 10, Unit \div 2, Unit >>

OversizedRectInit ==
    /\ ViewerInit(OversizedRectImages, ViewerTransitions)
    /\ harness = [kind |-> "viewer"]

SpecOversizedRect == OversizedRectInit /\ [][Next]_vars

(***************************************************************************)
(* The viewer with the keys of each iteration on record: harness holds the *)
(* key pressed and the key held when the iteration sampled its input,      *)
(* taken or not                                                            *)
(***************************************************************************)
InputInit ==
    /\ ViewerInit(ViewerImages, ViewerTransitions)
    /\ harness = [kind |-> "input", step |-> NoDir, cont |-> NoDir]

InputIteration(step, cont, next_ms) ==
    /\ now + next_ms <= MaxInputTime
    /\ RunLoop(step, cont, next_ms)
    /\ harness' = [kind |-> "input", step |-> step, cont |-> cont]

InputNext ==
    \E step \in Dirs \cup {NoDir}, cont \in Dirs \cup {NoDir}, next_ms \in FrameTimes :
        InputIteration(step, cont, next_ms)

SpecInput == InputInit /\ [][InputNext]_vars

(***************************************************************************)
(* The TransitionManager driven directly: start_transition and update()    *)
(* called at any clock readings, as a caller of the class may              *)
(***************************************************************************)
Frames(n) == [k \in 1..n |-> k]

\* the frame lists load_all_transitions may leave: a first image with 1, 10, 15
\* or 16 frames, then two images without a transition folder
PlayerCatalogs == { << Frames(n), <<>>, <<>> >> : n \in {1, 10, 15, 16} }

\* the elapsed times (ms) at which a caller may call update() on a playing
\* transition: around the frame boundaries and the ends of 10 and 16 frames
PlayerElapsed == {0, 1, 33, 34, 100, 300, 333, 334, 500, 501, 533, 534, 600}

PlayerInit ==
    /\ now = 0
    /\ clock_time = 0
    /\ transitions \in PlayerCatalogs
    /\ images = << Unit, Unit, Unit >>
    /\ current_index = 0
    /\ zc = ZoomControllerInit
    /\ tm = TransitionManagerInit
    /\ ev = NoEvent
    /\ harness = [kind |-> "player", updates |-> 0]

\* start_transition(direction), toward a neighbour that exists
PlayerStart(direction) ==
    /\ ~is_active(tm)
    /\ IF direction = "forward" THEN tm.transition_idx < Len(transitions) - 1
       ELSE tm.transition_idx > 0
    /\ tm' = start_transition(tm, transitions, direction, now)
    /\ ev' = [NoEvent EXCEPT !.op = "start_transition", !.t = now]
    /\ harness' = [harness EXCEPT !.updates = 0]
    /\ UNCHANGED <<now, clock_time, images, transitions, current_index, zc>>

\* update() at clock reading t, not before the last call; harness.updates
\* counts the calls since start_transition, up to 2
PlayerUpdate(t) ==
    LET r == transition_update(tm, t)
    IN  /\ t >= now /\ t <= MaxPlayerTime
        /\ is_active(tm) \/ t = now
        /\ now' = t
        /\ clock_time' = t - now
        /\ tm' = r.tm
        /\ ev' = [NoEvent EXCEPT !.op = "transition_update", !.t = t,
                                 !.active = is_active(tm), !.complete = r.complete]
        /\ harness' = [harness EXCEPT !.updates = IF @ < 2 THEN @ + 1 ELSE @]
        /\ UNCHANGED <<images, transitions, current_index, zc>>

PlayerNext ==
    \/ \E direction \in {"forward", "backward"} : PlayerStart(direction)
    \/ \E e \in PlayerElapsed :
          PlayerUpdate(IF is_active(tm) THEN tm.transition_start_time + e ELSE now)

SpecPlayer == PlayerInit /\ [][PlayerNext]_vars

(***************************************************************************)
(* The ZoomController driven through one monotonic sweep: zoom_step calls, *)
(* each issued when the animation before it has ended, or zoom_continuous  *)
(* calls, one per frame as record_transition.py issues them; update()      *)
(* follows in the same frame.  After the crossing the sweep's input stops  *)
(* and update() is called MaxAfterSweep more times.                        *)
(***************************************************************************)
\* the max_scale of the image swept: no target rectangle, 1.2, 2.0
SweepMaxScales == { Unit, (12 * Unit) \div 10, 2 * Unit }

SweepInit ==
    /\ now = 0
    /\ clock_time = 0
    /\ images = ViewerImages
    /\ transitions = ViewerTransitions
    /\ current_index = 0
    /\ tm = TransitionManagerInit
    /\ ev = NoEvent
    /\ \E m \in SweepMaxScales, d \in Dirs, mode \in {"step", "continuous"} :
          /\ zc = IF d = "in" THEN reset_to_min(set_max_scale(ZoomControllerInit, m))
                  ELSE reset_to_max(set_max_scale(ZoomControllerInit, m))
          /\ harness = [ kind |-> "sweep", direction |-> d, mode |-> mode,
                         forward |-> 0, backward |-> 0, crossed |-> FALSE, after |-> 0 ]

\* one frame of the sweep at clock reading now: inp is the controller as the
\* frame's input left it; update() follows and the frame ends next_ms later
SweepFrame(inp, step, cont, next_ms) ==
    LET u == update(inp, now)
    IN  /\ now + next_ms <= MaxSweepTime
        /\ zc' = u.zc
        /\ ev' = [NoEvent EXCEPT !.op = "sweep", !.step = step, !.cont = cont, !.t = now,
                                 !.input = inp, !.updated = u.zc, !.boundary = u.boundary]
        /\ harness' = [harness EXCEPT
                          !.forward  = IF u.boundary = "forward" THEN @ + 1 ELSE @,
                          !.backward = IF u.boundary = "backward" THEN @ + 1 ELSE @,
                          !.crossed  = @ \/ u.zc.scale > u.zc.current_max_scale
                                         \/ u.zc.scale < min_scale,
                          !.after    = IF harness.crossed THEN @ + 1 ELSE @]
        /\ now' = now + next_ms
        /\ clock_time' = next_ms
        /\ UNCHANGED <<images, transitions, current_index, tm>>

\* a frame of a sweep by steps: a zoom_step when no animation is in flight
SweepByStep(next_ms) ==
    /\ harness.mode = "step" /\ ~harness.crossed
    /\ IF zc.is_animating
       THEN SweepFrame(zc, NoDir, NoDir, next_ms)
       ELSE SweepFrame(zoom_step(zc, harness.direction, now), harness.direction, NoDir, next_ms)

\* a frame of a sweep by continuous zoom: zoom_continuous(direction, dt)
SweepByContinuous(next_ms) ==
    /\ harness.mode = "continuous" /\ ~harness.crossed
    /\ SweepFrame(zoom_continuous(zc, harness.direction, clock_time),
                  NoDir, harness.direction, next_ms)

\* a frame after the crossing: update() with no input
SweepAfter(next_ms) ==
    /\ harness.crossed /\ harness.after < MaxAfterSweep
    /\ SweepFrame(zc, NoDir, NoDir, next_ms)

SweepNext ==
    \E next_ms \in FrameTimes :
        \/ SweepByStep(next_ms)
        \/ SweepByContinuous(next_ms)
        \/ SweepAfter(next_ms)

SpecSweep == SweepInit /\ [][SweepNext]_vars

(***************************************************************************)
(* zoom_continuous called repeatedly on one controller, in one direction,  *)
(* for a total of at most MaxZoomTotal milliseconds                        *)
(***************************************************************************)
ZoomStartScales == { Unit, (13 * Unit) \div 10, (25 * Unit) \div 10 }

ZoomCallDts == {50, 100, 200, 350, 500, 1000}

ZoomInit ==
    /\ now = 0
    /\ clock_time = 0
    /\ images = ViewerImages
    /\ transitions = ViewerTransitions
    /\ current_index = 0
    /\ tm = TransitionManagerInit
    /\ ev = NoEvent
    /\ \E s0 \in ZoomStartScales, d \in Dirs :
          /\ zc = [ZoomControllerInit EXCEPT !.scale = s0]
          /\ harness = [ kind |-> "zoom", direction |-> d, start |-> s0,
                         total |-> 0, calls |-> 0 ]

\* zoom_continuous(direction, ms / 1000)
ZoomCall(ms) ==
    /\ harness.total + ms <= MaxZoomTotal
    /\ zc' = zoom_continuous(zc, harness.direction, ms)
    /\ ev' = [NoEvent EXCEPT !.op = "zoom_continuous", !.cont = harness.direction,
                             !.input = zc, !.updated = zc']
    /\ harness' = [harness EXCEPT !.total = @ + ms, !.calls = @ + 1]
    /\ UNCHANGED <<now, clock_time, images, transitions, current_index, tm>>

ZoomNext == \E ms \in ZoomCallDts : ZoomCall(ms)

SpecZoom == ZoomInit /\ [][ZoomNext]_vars

(***************************************************************************)
(* The ZoomController driven directly: zoom_step with any argument and     *)
(* update(), called at any clock readings up to MaxControllerTime          *)
(***************************************************************************)
\* the arguments zoom_step is called with: the two directions, and values
\* that are neither ('up', None)
StepArguments == {"in", "out", "up", NoDir}

\* the max_scale of the image the controller zooms
ControllerMaxScales == { (12 * Unit) \div 10, 2 * Unit }

\* harness: the argument of the last zoom_step, and the animation the last
\* zoom_step replaced (<<>> when none was in flight)
ControllerInit ==
    /\ now = 0
    /\ clock_time = 0
    /\ images = ViewerImages
    /\ transitions = ViewerTransitions
    /\ current_index = 0
    /\ tm = TransitionManagerInit
    /\ ev = NoEvent
    /\ \E m \in ControllerMaxScales : zc = set_max_scale(ZoomControllerInit, m)
    /\ harness = [ kind |-> "controller", direction |-> NoDir, replaced |-> << >> ]

\* zoom_step(direction)
ControllerZoomStep(direction) ==
    /\ zc' = zoom_step(zc, direction, now)
    /\ ev' = [NoEvent EXCEPT !.op = "zoom_step", !.step = direction, !.t = now,
                             !.input = zc, !.updated = zc']
    /\ harness' = [harness EXCEPT
                      !.direction = direction,
                      !.replaced = IF direction \in Dirs
                                   THEN IF zc.is_animating THEN << zc >> ELSE << >>
                                   ELSE @]
    /\ UNCHANGED <<now, clock_time, images, transitions, current_index, tm>>

\* update(), ms milliseconds after the last call
ControllerUpdate(ms) ==
    LET r == update(zc, now + ms)
    IN  /\ now + ms <= MaxControllerTime
        /\ now' = now + ms
        /\ clock_time' = ms
        /\ zc' = r.zc
        /\ ev' = [NoEvent EXCEPT !.op = "update", !.t = now + ms, !.input = zc,
                                 !.updated = r.zc, !.boundary = r.boundary]
        /\ UNCHANGED <<images, transitions, current_index, tm, harness>>

ControllerNext ==
    \/ \E direction \in StepArguments : ControllerZoomStep(direction)
    \/ \E ms \in FrameTimes : ControllerUpdate(ms)

SpecController == ControllerInit /\ [][ControllerNext]_vars

(***************************************************************************)
(* The viewer on a two-image catalog, its input a script: E2ESteps presses *)
(* of the zoom-in key, each made in the first iteration in which neither a *)
(* step animation nor a transition is in flight                            *)
(***************************************************************************)
E2ESteps == 5

\* image 0 zooms to 3.0 and has a ten-frame transition; image 1 has no target
\* rectangle and no transition folder
E2EImages == << 3 * Unit, Unit >>

E2ETransitions == << Frames(10), <<>> >>

\* harness: the presses made, the boundary events update() has returned, and
\* the elapsed time and scale of the animation at the last of them
E2EInit ==
    /\ ViewerInit(E2EImages, E2ETransitions)
    /\ harness = [ kind |-> "e2e", steps |-> 0, boundaries |-> 0,
                   fired_at |-> None, fired_scale |-> None, fired_target |-> None ]

E2EIteration(next_ms) ==
    LET press == ~zc.is_animating /\ ~is_active(tm) /\ harness.steps < E2ESteps
    IN  /\ now + next_ms <= MaxE2ETime
        /\ RunLoop(IF press THEN "in" ELSE NoDir, NoDir, next_ms)
        /\ harness' =
              IF ev'.boundary # NoDir
              THEN [harness EXCEPT !.steps = IF press THEN @ + 1 ELSE @,
                                   !.boundaries = @ + 1,
                                   !.fired_at = ev'.t - ev'.input.animation_start_time,
                                   !.fired_scale = ev'.updated.scale,
                                   !.fired_target = ev'.updated.target_scale]
              ELSE [harness EXCEPT !.steps = IF press THEN @ + 1 ELSE @]

E2ENext == \E next_ms \in FrameTimes : E2EIteration(next_ms)

SpecE2E == E2EInit /\ [][E2ENext]_vars

(***************************************************************************)
(* InputHandler, src/input_handler.py, called once per frame: the events   *)
(* queued since the last frame go to process_events, then                  *)
(* check_continuous_zoom reads the keyboard                                *)
(***************************************************************************)
\* pygame.K_UP and pygame.K_DOWN, in the order check_continuous_zoom tries them
Keys == <<"K_UP", "K_DOWN">>

KeySet == {Keys[i] : i \in 1..Len(Keys)}

\* the zoom direction of a key
KeyDirection(key) == IF key = "K_UP" THEN "in" ELSE "out"

\* InputHandler.__init__: last_key_time = {} (None: the key is not in the dict)
InputHandlerInit == [key \in KeySet |-> None]

\* the body of the loop of process_events for one KEYDOWN or KEYUP event of a
\* zoom key at clock reading t: h holds last_key_time and the actions so far
process_event(h, event, transition_active, t) ==
    IF transition_active THEN h
    ELSE IF event.type = "KEYDOWN"
    THEN [ last_key_time |-> [h.last_key_time EXCEPT ![event.key] = t],
           actions |-> Append(h.actions, <<"zoom_step", KeyDirection(event.key)>>) ]
    ELSE [ last_key_time |-> [h.last_key_time EXCEPT ![event.key] = None],
           actions |-> h.actions ]

\* process_events(transition_active) on the queued events: the dict it leaves
\* and the actions it returns
RECURSIVE process_events(_, _, _, _)
process_events(last_key_time, events, transition_active, t) ==
    IF events = << >> THEN [last_key_time |-> last_key_time, actions |-> << >>]
    ELSE process_event(process_events(last_key_time, SubSeq(events, 1, Len(events) - 1),
                                      transition_active, t),
                       events[Len(events)], transition_active, t)

\* check_continuous_zoom(transition_active, dt): the direction of the action it
\* returns, NoDir for None; pressed is pygame.key.get_pressed()
check_continuous_zoom(last_key_time, pressed, transition_active, t) ==
    LET Held(key) == /\ last_key_time[key] # None
                     /\ t - last_key_time[key] > key_delay
                     /\ pressed[key]
    IN  IF transition_active THEN NoDir
        ELSE IF Held(Keys[1]) THEN KeyDirection(Keys[1])
        ELSE IF Held(Keys[2]) THEN KeyDirection(Keys[2])
        ELSE NoDir

\* the durations (ms) of a frame
KeyFrameTimes == {100, 250}

\* the keyboard after the events: a key-down presses the key, a key-up releases it
RECURSIVE Keyboard(_, _)
Keyboard(pressed, events) ==
    IF events = << >> THEN pressed
    ELSE Keyboard([pressed EXCEPT ![events[1].key] = (events[1].type = "KEYDOWN")],
                  Tail(events))

\* the events a keyboard in state pressed can queue: a key-down of a key that
\* is up, a key-up of a key that is down, at most MaxEvents of them
RECURSIVE EventQueues(_, _)
EventQueues(pressed, n) ==
    IF n = 0 THEN { << >> }
    ELSE { << >> } \cup
         UNION { { << [type |-> IF pressed[key] THEN "KEYUP" ELSE "KEYDOWN", key |-> key] >> \o rest :
                     rest \in EventQueues([pressed EXCEPT ![key] = ~pressed[key]], n - 1) } :
                 key \in KeySet }

\* the queue holds a key-down (a key-up) of the key
HasEvent(events, type, key) ==
    \E i \in 1..Len(events) : events[i].type = type /\ events[i].key = key

CountKeyDowns(events) ==
    Cardinality({i \in 1..Len(events) : events[i].type = "KEYDOWN"})

\* whether a key-up of the key has been processed since its last key-down,
\* after the events: a key-down clears the flag, a key-up sets it unless it is
\* discarded
RECURSIVE UpProcessed(_, _, _, _)
UpProcessed(flag, key, events, transition_active) ==
    IF events = << >> THEN flag
    ELSE UpProcessed(IF events[1].key # key THEN flag
                     ELSE IF events[1].type = "KEYDOWN" THEN FALSE
                     ELSE IF transition_active THEN flag ELSE TRUE,
                     key, Tail(events), transition_active)

\* harness: the handler's dict, the keyboard, when each key last went down
\* and whether a key-up of it was processed since, and the last frame: its
\* events, transition_active, and what the two calls returned
KeysInit ==
    /\ now = 0
    /\ clock_time = 0
    /\ images = ViewerImages
    /\ transitions = ViewerTransitions
    /\ current_index = 0
    /\ zc = ZoomControllerInit
    /\ tm = TransitionManagerInit
    /\ ev = NoEvent
    /\ harness = [ kind |-> "keys", last_key_time |-> InputHandlerInit,
                   pressed |-> [key \in KeySet |-> FALSE],
                   down_at |-> [key \in KeySet |-> None],
                   up_processed |-> [key \in KeySet |-> FALSE],
                   events |-> << >>, active |-> FALSE, actions |-> << >>,
                   continuous |-> NoDir ]

\* one frame at clock reading now: process_events(transition_active), then
\* check_continuous_zoom(transition_active, dt); the next frame comes next_ms later
KeysFrame(events, transition_active, next_ms) ==
    LET p       == process_events(harness.last_key_time, events, transition_active, now)
        pressed == Keyboard(harness.pressed, events)
    IN  /\ now + next_ms <= MaxKeysTime
        /\ harness' =
              [ kind |-> "keys",
                last_key_time |-> p.last_key_time,
                pressed |-> pressed,
                down_at |-> [key \in KeySet |->
                                IF HasEvent(events, "KEYDOWN", key) THEN now
                                ELSE harness.down_at[key]],
                up_processed |-> [key \in KeySet |->
                                UpProcessed(harness.up_processed[key], key, events,
                                            transition_active)],
                events |-> events, active |-> transition_active,
                actions |-> p.actions,
                continuous |-> check_continuous_zoom(p.last_key_time, pressed,
                                                     transition_active, now) ]
        /\ ev' = [NoEvent EXCEPT !.op = "process_events", !.t = now,
                                 !.active = transition_active]
        /\ now' = now + next_ms
        /\ clock_time' = next_ms
        /\ UNCHANGED <<images, transitions, current_index, zc, tm>>

KeysNext ==
    \E events \in EventQueues(harness.pressed, MaxEvents),
       transition_active \in BOOLEAN, next_ms \in KeyFrameTimes :
          KeysFrame(events, transition_active, next_ms)

SpecKeys == KeysInit /\ [][KeysNext]_vars

(***************************************************************************)
(* Geometry: the loader of src/image_manager.py and the projection of      *)
(* src/renderer.py.  Pixel coordinates and the scales they are multiplied  *)
(* by are Python floats; here they are exact rationals n/d in lowest       *)
(* terms, and the catalogs below use sizes and fractions whose float       *)
(* arithmetic is exact.                                                    *)
(***************************************************************************)
RECURSIVE GCD(_, _)
GCD(a, b) == IF b = 0 THEN a ELSE GCD(b, a % b)

Abs(a) == IF a >= 0 THEN a ELSE -a

\* the rational n/d, d # 0, in lowest terms with a positive denominator
Rat(n, d) ==
    LET g == GCD(Abs(n), Abs(d))
    IN  IF d > 0 THEN [n |-> n \div g, d |-> d \div g]
        ELSE [n |-> (-n) \div g, d |-> (-d) \div g]

RInt(k) == [n |-> k, d |-> 1]

RAdd(a, b) == Rat(a.n * b.d + b.n * a.d, a.d * b.d)

RSub(a, b) == Rat(a.n * b.d - b.n * a.d, a.d * b.d)

RMul(a, b) == Rat(a.n * b.n, a.d * b.d)

\* a / b for b # 0
RDiv(a, b) == Rat(a.n * b.d, a.d * b.n)

RLt(a, b) == a.n * b.d < b.n * a.d

RLe(a, b) == a.n * b.d <= b.n * a.d

RMin(a, b) == IF RLe(a, b) THEN a ELSE b

RMax(a, b) == IF RLe(a, b) THEN b ELSE a

\* int(a): truncation toward zero
RTrunc(a) == IF a.n >= 0 THEN a.n \div a.d ELSE -((-a.n) \div a.d)

NoError == "none"

\* RectData(x, y, width, height)
RectData(x, y, width, height) == [x |-> x, y |-> y, width |-> width, height |-> height]

\* RectData.scaled(factor)
scaled(r, factor) ==
    RectData(RMul(r.x, factor), RMul(r.y, factor),
             RMul(r.width, factor), RMul(r.height, factor))

\* _get_rect looking at nextRect first
get_rect_normalized_first(img_config, original_size, scale_factor, space) ==
    LET pixel_rect == img_config.nextPixelRect
        rect       == img_config.nextRect
        orig_w     == RInt(original_size[1])
        orig_h     == RInt(original_size[2])
        rect_data  ==
            IF Len(rect) = 4
            THEN << RectData(RMul(orig_w, rect[1]), RMul(orig_h, rect[2]),
                             RMul(orig_w, rect[3]), RMul(orig_h, rect[4])) >>
            ELSE IF Len(pixel_rect) = 4
            THEN << RectData(pixel_rect[1], pixel_rect[2], pixel_rect[3], pixel_rect[4]) >>
            ELSE << >>
    IN  IF rect_data # << >> /\ space = "surface"
        THEN << scaled(rect_data[1], scale_factor) >>
        ELSE rect_data

\* _get_rect(img_config, original_size, scale_factor, space): <<>> for None, or
\* <<rect>>; an absent key and an empty list are both the empty sequence
get_rect(img_config, original_size, scale_factor, space) ==
    LET pixel_rect == img_config.nextPixelRect
        rect       == img_config.nextRect
        orig_w     == RInt(original_size[1])
        orig_h     == RInt(original_size[2])
        rect_data  ==
            IF Len(pixel_rect) = 4
            THEN << RectData(pixel_rect[1], pixel_rect[2], pixel_rect[3], pixel_rect[4]) >>
            ELSE IF Len(rect) = 4
            THEN << RectData(RMul(orig_w, rect[1]), RMul(orig_h, rect[2]),
                             RMul(orig_w, rect[3]), RMul(orig_h, rect[4])) >>
            ELSE << >>
    IN  IF rect_data # << >> /\ space = "surface"
        THEN << scaled(rect_data[1], scale_factor) >>
        ELSE rect_data

\* _calculate_max_scale(img_config, original_size, scale_factor): the value it
\* returns, or the exception the float division raises
calculate_max_scale(viewport_dims, img_config, original_size, scale_factor) ==
    LET rect == get_rect(img_config, original_size, scale_factor, "surface")
    IN  IF rect = << >>
        THEN [error |-> NoError, max_scale |-> RInt(1)]
        ELSE IF rect[1].width.n = 0 \/ rect[1].height.n = 0
        THEN [error |-> "ZeroDivisionError", max_scale |-> RInt(1)]
        ELSE [error |-> NoError,
              max_scale |-> RMin(RDiv(RInt(viewport_dims[1]), rect[1].width),
                                 RDiv(RInt(viewport_dims[2]), rect[1].height))]

\* the body of the loop of load_images() for one image: the ImageData appended,
\* or the exception raised; original and surface are the sizes of the surfaces
load_image(viewport_dims, original_size, img_config) ==
    LET scale == RMin(Rat(viewport_dims[1], original_size[1]),
                      Rat(viewport_dims[2], original_size[2]))
        new_size == << RTrunc(RMul(RInt(original_size[1]), scale)),
                       RTrunc(RMul(RInt(original_size[2]), scale)) >>
        m == calculate_max_scale(viewport_dims, img_config, original_size, scale)
    IN  [ error |-> m.error,
          config |-> img_config,
          original |-> original_size,
          surface |-> new_size,
          scale |-> scale,
          max_scale |-> m.max_scale ]

\* get_normalized_zoom(): the value, or the exception the float division raises
get_normalized_zoom(scale, current_max_scale) ==
    IF current_max_scale = RInt(1)
    THEN [error |-> "ZeroDivisionError", value |-> RInt(0)]
    ELSE [error |-> NoError,
          value |-> RDiv(RSub(scale, RInt(1)), RSub(current_max_scale, RInt(1)))]

CROP_THRESHOLD == Rat(3, 2)

margin == 2

\* pygame.Surface.subsurface(rect) raises ValueError unless rect lies inside the surface
subsurface_error(size, left, top, width, height) ==
    IF left >= 0 /\ top >= 0 /\ width >= 0 /\ height >= 0
       /\ left + width <= size[1] /\ top + height <= size[2]
    THEN NoError ELSE "ValueError"

\* _scale_image_optimized with the crop edges not clamped to the original
crop_edge_unclamped(edge, limit) == RTrunc(edge)

\* the clamp of a crop edge: max(0, min(int(edge), limit))
crop_edge(edge, limit) ==
    LET e == RTrunc(edge) IN
    IF e > limit THEN limit ELSE IF e < 0 THEN 0 ELSE e

\* the crop blitted at the image position, its origin in the original forgotten
adjusted_pos_unshifted(image_pos_xy, crop_start, k) == image_pos_xy

\* adjusted_pos = image_pos + crop_start * original_scale_factor * scale
adjusted_pos(image_pos_xy, crop_start, k) == RAdd(image_pos_xy, RMul(RInt(crop_start), k))

\* _scale_image_optimized(image_data, scale, image_pos_x, image_pos_y, img_surface):
\* which branch returned, the crop rectangle taken from the original, the size of
\* the surface returned and the position returned with it
scale_image_optimized(viewport_dims, image_data, scale, image_pos_x, image_pos_y) ==
    LET W == RInt(image_data.surface[1])
        H == RInt(image_data.surface[2])
        whole(path) ==
            [ error |-> NoError, path |-> path,
              crop |-> << 0, 0, image_data.original[1], image_data.original[2] >>,
              width |-> RMul(W, scale), height |-> RMul(H, scale),
              adjusted_pos_x |-> image_pos_x, adjusted_pos_y |-> image_pos_y ]
    IN
    IF RLt(scale, CROP_THRESHOLD) THEN whole("simple")
    ELSE
    LET zero == RInt(0)
        visible_left   == RMax(zero, RSub(zero, image_pos_x))
        visible_top    == RMax(zero, RSub(zero, image_pos_y))
        visible_right  == RMin(RMul(W, scale), RSub(RInt(viewport_dims[1]), image_pos_x))
        visible_bottom == RMin(RMul(H, scale), RSub(RInt(viewport_dims[2]), image_pos_y))
        original_scale_factor == image_data.scale
        toOriginal(v)  == RDiv(RDiv(v, scale), original_scale_factor)
        crop_left   == crop_edge(RSub(toOriginal(visible_left), RInt(margin)),
                                 image_data.original[1])
        crop_top    == crop_edge(RSub(toOriginal(visible_top), RInt(margin)),
                                 image_data.original[2])
        crop_right  == crop_edge(RAdd(toOriginal(visible_right), RInt(margin)),
                                 image_data.original[1])
        crop_bottom == crop_edge(RAdd(toOriginal(visible_bottom), RInt(margin)),
                                 image_data.original[2])
        crop_width  == crop_right - crop_left
        crop_height == crop_bottom - crop_top
        k == RMul(original_scale_factor, scale)
        final_width  == RTrunc(RMul(RInt(crop_width), k))
        final_height == RTrunc(RMul(RInt(crop_height), k))
        raised == subsurface_error(image_data.original, crop_left, crop_top,
                                   crop_width, crop_height)
    IN  IF crop_width > 0 /\ crop_height > 0
        THEN IF raised # NoError
             THEN [whole("crop") EXCEPT !.error = raised,
                                        !.crop = <<crop_left, crop_top, crop_width, crop_height>>]
             ELSE IF final_width > 0 /\ final_height > 0
             THEN [ error |-> NoError, path |-> "crop",
                    crop |-> <<crop_left, crop_top, crop_width, crop_height>>,
                    width |-> RInt(final_width), height |-> RInt(final_height),
                    adjusted_pos_x |-> adjusted_pos(image_pos_x, crop_left, k),
                    adjusted_pos_y |-> adjusted_pos(image_pos_y, crop_top, k) ]
             ELSE whole("fallback")
        ELSE whole("fallback")

\* the position _draw_centered_image(image_data) blits the surface at
draw_centered_image(viewport_dims, image_data) ==
    [ x |-> RSub(Rat(viewport_dims[1], 2), Rat(image_data.surface[1], 2)),
      y |-> RSub(Rat(viewport_dims[2], 2), Rat(image_data.surface[2], 2)) ]

\* image_pos with the viewport anchor at the centre of the viewport
image_pos_centre_anchor(rect_start, rect_size, size, viewport, scale, normalized_zoom) ==
    LET rect_center == RAdd(rect_start, RDiv(rect_size, RInt(2)))
        relative    == RDiv(rect_center, RInt(size))
        img_point   == RMul(RInt(size), relative)
        rect_point  == RAdd(rect_start, RMul(rect_size, relative))
        focus == RAdd(img_point, RMul(RSub(rect_point, img_point), normalized_zoom))
    IN  RSub(Rat(viewport, 2), RMul(focus, scale))

\* image_pos with the focus at the point in the rectangle at every zoom level
image_pos_focus_in_rect(rect_start, rect_size, size, viewport, scale, normalized_zoom) ==
    LET rect_center == RAdd(rect_start, RDiv(rect_size, RInt(2)))
        relative    == RDiv(rect_center, RInt(size))
        rect_point  == RAdd(rect_start, RMul(rect_size, relative))
    IN  RSub(RMul(RInt(viewport), relative), RMul(rect_point, scale))

\* image_pos of _draw_zoomed_image along one axis: rect_start and rect_size are
\* rect.x and rect.width (or rect.y and rect.height), size the surface's width
\* (height), viewport the viewport's
image_pos(rect_start, rect_size, size, viewport, scale, normalized_zoom) ==
    LET rect_center == RAdd(rect_start, RDiv(rect_size, RInt(2)))
        relative    == RDiv(rect_center, RInt(size))
        img_point   == RMul(RInt(size), relative)
        rect_local  == RMul(rect_size, relative)
        rect_point  == RAdd(rect_start, rect_local)
        viewport_anchor == RMul(RInt(viewport), relative)
        focus == RAdd(img_point, RMul(RSub(rect_point, img_point), normalized_zoom))
    IN  RSub(viewport_anchor, RMul(focus, scale))

\* _draw_zoomed_image(image_data, rect, zoom_controller): the exception raised, or
\* the image position, what _scale_image_optimized returned, and the rectangle
\* outlined (before rounding)
draw_zoomed_image(viewport_dims, image_data, rect, scale, current_max_scale) ==
    LET z == get_normalized_zoom(scale, current_max_scale)
        image_pos_x == image_pos(rect.x, rect.width, image_data.surface[1],
                                 viewport_dims[1], scale, z.value)
        image_pos_y == image_pos(rect.y, rect.height, image_data.surface[2],
                                 viewport_dims[2], scale, z.value)
        scaled_image == scale_image_optimized(viewport_dims, image_data, scale,
                                              image_pos_x, image_pos_y)
    IN  IF z.error # NoError
        THEN [ error |-> z.error, drawn |-> "nothing" ]
        ELSE [ error |-> scaled_image.error, drawn |-> "zoomed",
               normalized_zoom |-> z.value,
               image_pos_x |-> image_pos_x, image_pos_y |-> image_pos_y,
               scaled |-> scaled_image,
               rect_viewport_x |-> RAdd(RMul(rect.x, scale), image_pos_x),
               rect_viewport_y |-> RAdd(RMul(rect.y, scale), image_pos_y),
               rect_viewport_w |-> RMul(rect.width, scale),
               rect_viewport_h |-> RMul(rect.height, scale) ]

\* draw_frame(image_manager, zoom_controller, transition_manager) with no
\* transition active: the image drawn zoomed when it has a rectangle, centered
\* when it has none
draw_frame(viewport_dims, image_data, scale, current_max_scale) ==
    LET rect == get_rect(image_data.config, image_data.original, image_data.scale, "surface")
        c    == draw_centered_image(viewport_dims, image_data)
    IN  IF rect # << >>
        THEN draw_zoomed_image(viewport_dims, image_data, rect[1], scale, current_max_scale)
        ELSE [ error |-> NoError, drawn |-> "centered",
               image_pos_x |-> c.x, image_pos_y |-> c.y ]

(***************************************************************************)
(* The loader and the renderer on one image: load_images() on a catalog    *)
(* entry, then draw_frame() at a zoom level of the loaded image, or        *)
(* _scale_image_optimized() at a scale and an image position               *)
(***************************************************************************)
RenderViewports == { <<800, 600>>, <<400, 300>> }

\* the sizes of the original images
RenderOriginals == { <<1600, 1200>>, <<800, 600>>, <<1200, 1200>>, <<400, 300>> }

\* the catalog entries: no rectangle; nextRect centred, off centre with the
\* viewport's aspect ratio, off centre with another aspect ratio, the whole
\* image, of wrong length, of zero width, of zero height, larger than the
\* image; nextPixelRect alone; nextPixelRect of wrong length beside a nextRect
RenderConfigs ==
    { [nextPixelRect |-> << >>, nextRect |-> << >>],
      [nextPixelRect |-> << >>, nextRect |-> <<Rat(1,4), Rat(1,4), Rat(1,2), Rat(1,2)>>],
      [nextPixelRect |-> << >>, nextRect |-> <<Rat(1,2), Rat(1,4), Rat(1,4), Rat(1,4)>>],
      [nextPixelRect |-> << >>, nextRect |-> <<Rat(1,8), Rat(1,2), Rat(1,2), Rat(1,4)>>],
      [nextPixelRect |-> << >>, nextRect |-> <<RInt(0), RInt(0), RInt(1), RInt(1)>>],
      [nextPixelRect |-> << >>, nextRect |-> <<Rat(1,4), Rat(1,4), Rat(1,2)>>],
      [nextPixelRect |-> << >>, nextRect |-> <<Rat(1,4), Rat(1,4), RInt(0), Rat(1,2)>>],
      [nextPixelRect |-> << >>, nextRect |-> <<Rat(1,4), Rat(1,4), Rat(1,2), RInt(0)>>],
      [nextPixelRect |-> << >>, nextRect |-> <<RInt(0), RInt(0), RInt(2), RInt(2)>>],
      [nextPixelRect |-> <<RInt(200), RInt(150), RInt(400), RInt(300)>>, nextRect |-> << >>],
      [nextPixelRect |-> <<RInt(200), RInt(150), RInt(400)>>,
       nextRect |-> <<Rat(1,4), Rat(1,4), Rat(1,2), Rat(1,2)>>] }

\* the zoom levels a frame is drawn at, as fractions of the way from min_scale
\* to the image's max_scale
RenderZooms == { RInt(0), Rat(1,4), Rat(1,2), Rat(3,4), RInt(1) }

\* the scales and image positions _scale_image_optimized is called with
RenderScales == { RInt(1), Rat(3,2), RInt(2), RInt(4) }

RenderPositions == { RInt(-2000), RInt(-400), Rat(-7,2), RInt(0), RInt(100), RInt(900) }

RenderInit ==
    /\ now = 0
    /\ clock_time = 0
    /\ images = ViewerImages
    /\ transitions = ViewerTransitions
    /\ current_index = 0
    /\ zc = ZoomControllerInit
    /\ tm = TransitionManagerInit
    /\ ev = NoEvent
    /\ \E v \in RenderViewports, o \in RenderOriginals, c \in RenderConfigs :
          harness = [ kind |-> "render", phase |-> "config",
                      viewport_dims |-> v, original |-> o, config |-> c ]

\* load_images(), then ZoomViewer.__init__ sets the controller's max scale
LoadImages ==
    /\ harness.kind = "render" /\ harness.phase = "config"
    /\ LET r == load_image(harness.viewport_dims, harness.original, harness.config)
       IN  harness' = [ kind |-> "render",
                        phase |-> IF r.error = NoError THEN "loaded" ELSE "failed",
                        viewport_dims |-> harness.viewport_dims,
                        error |-> r.error,
                        image |-> r,
                        scale |-> RInt(1),
                        current_max_scale |-> r.max_scale ]
    /\ ev' = [NoEvent EXCEPT !.op = "load_images"]
    /\ UNCHANGED <<now, clock_time, images, transitions, current_index, zc, tm>>

\* each image is loaded once and one call is made on it: the calls are
\* functions of the loaded image and of their arguments
Loaded == harness.kind = "render" /\ harness.phase = "loaded"

\* draw_frame() with the controller's scale the fraction zoom of the way from
\* min_scale to the image's max_scale
DrawFrame(zoom) ==
    /\ Loaded
    /\ LET m == harness.current_max_scale
           s == IF RLt(m, RInt(1)) THEN RInt(1)
                ELSE RAdd(RInt(1), RMul(zoom, RSub(m, RInt(1))))
           d == draw_frame(harness.viewport_dims, harness.image, s, m)
       IN  harness' = [ kind |-> "render", phase |-> "drawn",
                        viewport_dims |-> harness.viewport_dims,
                        error |-> d.error,
                        image |-> harness.image,
                        scale |-> s,
                        current_max_scale |-> m,
                        draw |-> d ]
    /\ ev' = [NoEvent EXCEPT !.op = "draw_frame"]
    /\ UNCHANGED <<now, clock_time, images, transitions, current_index, zc, tm>>

\* _scale_image_optimized(image_data, s, x, y, img_surface)
ScaleImage(s, x, y) ==
    /\ Loaded
    /\ LET r == scale_image_optimized(harness.viewport_dims, harness.image, s, x, y)
       IN  harness' = [ kind |-> "render", phase |-> "scaled",
                        viewport_dims |-> harness.viewport_dims,
                        error |-> r.error,
                        image |-> harness.image,
                        scale |-> s,
                        current_max_scale |-> harness.current_max_scale,
                        draw |-> [ error |-> r.error, drawn |-> "scaled",
                                   image_pos_x |-> x, image_pos_y |-> y,
                                   scaled |-> r ] ]
    /\ ev' = [NoEvent EXCEPT !.op = "scale_image_optimized"]
    /\ UNCHANGED <<now, clock_time, images, transitions, current_index, zc, tm>>

RenderNext ==
    \/ LoadImages
    \/ \E zoom \in RenderZooms : DrawFrame(zoom)
    \/ \E s \in RenderScales, x \in RenderPositions, y \in RenderPositions :
          ScaleImage(s, x, y)

SpecRender == RenderInit /\ [][RenderNext]_vars

(***************************************************************************)
(* The loader on one target rectangle in its two encodings: the image is   *)
(* loaded with the rectangle as nextRect, as nextPixelRect, and as         *)
(* nextPixelRect beside another nextRect                                   *)
(***************************************************************************)
\* the normalized rectangles: positions and sizes in eighths, inside the image
RectOrigins == { RInt(0), Rat(1,8), Rat(1,4), Rat(1,2) }

RectExtents == { Rat(1,8), Rat(1,4), Rat(1,2) }

RectOthers == { <<Rat(1,4), Rat(1,4), Rat(1,2), Rat(1,2)>>,
                <<RInt(0), RInt(0), Rat(1,4), Rat(1,8)>> }

\* the absolute pixel rect [x*W, y*H, w*W, h*H] of the normalized rect
\* [x, y, w, h] on an original image of size W x H
PixelRect(rect, original_size) ==
    << RMul(rect[1], RInt(original_size[1])), RMul(rect[2], RInt(original_size[2])),
       RMul(rect[3], RInt(original_size[1])), RMul(rect[4], RInt(original_size[2])) >>

RectInit ==
    /\ now = 0
    /\ clock_time = 0
    /\ images = ViewerImages
    /\ transitions = ViewerTransitions
    /\ current_index = 0
    /\ zc = ZoomControllerInit
    /\ tm = TransitionManagerInit
    /\ ev = NoEvent
    /\ \E v \in RenderViewports, o \in RenderOriginals,
          x \in RectOrigins, y \in RectOrigins, w \in RectExtents, h \in RectExtents,
          other \in RectOthers :
          harness = [ kind |-> "rect", phase |-> "config",
                      viewport_dims |-> v, original |-> o,
                      rect |-> <<x, y, w, h>>, other |-> other ]

\* one catalog entry through load_images() and get_rect(image_data, space)
LoadedRect(viewport_dims, original_size, img_config) ==
    LET image == load_image(viewport_dims, original_size, img_config)
    IN  [ image |-> image,
          original |-> get_rect(img_config, original_size, image.scale, "original"),
          surface |-> get_rect(img_config, original_size, image.scale, "surface") ]

\* load_images() on the three catalog entries
LoadRects ==
    /\ harness.kind = "rect" /\ harness.phase = "config"
    /\ LET pixels == PixelRect(harness.rect, harness.original)
           Load(c) == LoadedRect(harness.viewport_dims, harness.original, c)
       IN  harness' =
              [ kind |-> "rect", phase |-> "loaded",
                viewport_dims |-> harness.viewport_dims, original |-> harness.original,
                rect |-> harness.rect, other |-> harness.other,
                normalized |-> Load([nextPixelRect |-> << >>, nextRect |-> harness.rect]),
                pixel |-> Load([nextPixelRect |-> pixels, nextRect |-> << >>]),
                both |-> Load([nextPixelRect |-> pixels, nextRect |-> harness.other]) ]
    /\ ev' = [NoEvent EXCEPT !.op = "load_images"]
    /\ UNCHANGED <<now, clock_time, images, transitions, current_index, zc, tm>>

RectNext == LoadRects

SpecRect == RectInit /\ [][RectNext]_vars

(***************************************************************************)
(* The single-file viewer, src/viewer_pygame.py, and the single-directory  *)
(* TransitionManager, src/transition_manager.py.  Both load the one frame  *)
(* list of the folder 'sample transitions'.                                *)
(***************************************************************************)
\* ZoomViewer.__init__ of viewer_pygame after load_images() and
\* load_transition_frames(): imgs holds the max_scale of each image
PygameViewerInit(imgs, frames) ==
    [ current_index |-> 0,
      scale |-> Unit,
      target_scale |-> Unit,
      start_scale |-> Unit,
      animation_start_time |-> None,
      is_animating |-> FALSE,
      is_transitioning |-> FALSE,
      transition_frames |-> frames,
      transition_frame_index |-> 0,
      transition_start_time |-> None,
      pending_image_index |-> None,
      transition_direction |-> NoDir,
      images |-> imgs ]

\* ZoomViewer.start_transition(target_index) at clock reading t
pygame_start_transition(v, target_index, t) ==
    [v EXCEPT !.is_transitioning = TRUE,
              !.transition_frame_index = 0,
              !.transition_start_time = t,
              !.pending_image_index = target_index,
              !.transition_direction =
                  IF target_index > v.current_index THEN "forward" ELSE "backward"]

\* ZoomViewer.swap_image_if_exceeded_zoom_boundaries(): the viewer it leaves
\* and what it returns
swap_image_if_exceeded_zoom_boundaries(v, t) ==
    IF v.scale > v.images[v.current_index + 1]
    THEN [ v |-> IF v.current_index < Len(v.images) - 1
                 THEN pygame_start_transition(v, v.current_index + 1, t)
                 ELSE [v EXCEPT !.scale = Unit],
           swapped |-> TRUE ]
    ELSE IF v.scale < min_scale
    THEN [ v |-> IF v.current_index > 0
                 THEN pygame_start_transition(v, v.current_index - 1, t)
                 ELSE [v EXCEPT !.scale = min_scale],
           swapped |-> TRUE ]
    ELSE [v |-> v, swapped |-> FALSE]

\* ZoomViewer.handle_transition_animation() at clock reading t
handle_transition_animation(v, t) ==
    IF ~v.is_transitioning \/ Len(v.transition_frames) = 0 THEN v
    ELSE
    LET elapsed == t - v.transition_start_time
        target  == target_frame(elapsed)
        n       == Len(v.transition_frames)
    IN  IF target >= n
        THEN [v EXCEPT !.is_transitioning = FALSE,
                       !.current_index = v.pending_image_index,
                       !.scale = IF v.transition_direction = "backward"
                                 THEN v.images[v.pending_image_index + 1]
                                 ELSE min_scale]
        ELSE [v EXCEPT !.transition_frame_index =
                           IF v.transition_direction = "backward"
                           THEN n - 1 - target ELSE target]

\* ZoomViewer.start_zoom_animation(target) at clock reading t
pygame_start_zoom_animation(v, target, t) ==
    [v EXCEPT !.is_animating = TRUE,
              !.animation_start_time = t,
              !.target_scale = target,
              !.start_scale = v.scale]

\* ZoomViewer.zoom_image(direction), zoom_factor = 1.3
zoom_image(v, direction, t) ==
    pygame_start_zoom_animation(v,
        IF direction = "in"
        THEN MulRat(v.scale, step_zoom_factor_num, step_zoom_factor_den)
        ELSE MulRat(v.scale, step_zoom_factor_den, step_zoom_factor_num), t)

\* ZoomViewer.handle_step_animation() at clock reading t
handle_step_animation(v, t) ==
    IF ~v.is_animating THEN v
    ELSE
    LET elapsed == t - v.animation_start_time IN
    IF elapsed >= animation_duration
    THEN [v EXCEPT !.is_animating = FALSE, !.scale = v.target_scale]
    ELSE LET r == swap_image_if_exceeded_zoom_boundaries(
                      [v EXCEPT !.scale = interpolate(v, elapsed)], t)
         IN  IF r.swapped THEN [r.v EXCEPT !.is_animating = FALSE] ELSE r.v

\* ZoomViewer.handle_continuous_zoom(dt), dt = ms / 1000, continuous_zoom_rate
\* = 1.0: the factor is (1 + 1.0) ** dt; pressed is pygame.key.get_pressed()
handle_continuous_zoom(v, pressed, ms, t) ==
    swap_image_if_exceeded_zoom_boundaries(
        [v EXCEPT !.scale = IF pressed["K_UP"] THEN MulRat(v.scale, zoom_factor(ms), 10000)
                            ELSE IF pressed["K_DOWN"] THEN MulRat(v.scale, 10000, zoom_factor(ms))
                            ELSE v.scale], t).v

\* the event loop of run() at clock reading t: s holds the viewer and the
\* local last_key_time
RECURSIVE pygame_events(_, _, _)
pygame_events(s, events, t) ==
    IF events = << >> THEN s
    ELSE LET event == events[1]
             next  == IF s.v.is_transitioning THEN s
                      ELSE IF event.type = "KEYDOWN"
                      THEN [ v |-> zoom_image(s.v, KeyDirection(event.key), t),
                             last_key_time |-> [s.last_key_time EXCEPT ![event.key] = t] ]
                      ELSE [ v |-> s.v,
                             last_key_time |-> [s.last_key_time EXCEPT ![event.key] = None] ]
         IN  pygame_events(next, Tail(events), t)

\* the continuous-zoom loop of run() over K_UP and K_DOWN: entered when no
\* transition is active, it calls handle_continuous_zoom for each held key
RECURSIVE pygame_held_keys(_, _, _, _, _, _)
pygame_held_keys(v, i, last_key_time, pressed, ms, t) ==
    IF i > Len(Keys) THEN v
    ELSE pygame_held_keys(
             IF /\ last_key_time[Keys[i]] # None
                /\ t - last_key_time[Keys[i]] > key_delay
                /\ pressed[Keys[i]]
             THEN handle_continuous_zoom(v, pressed, ms, t) ELSE v,
             i + 1, last_key_time, pressed, ms, t)

\* one pass of the while loop of run() at clock reading t, the last tick
\* having taken ms: the viewer and last_key_time it leaves, and whether
\* handle_step_animation ended an animation at its target
pygame_run(v, last_key_time, events, pressed, ms, t) ==
    LET e        == pygame_events([v |-> v, last_key_time |-> last_key_time], events, t)
        held     == IF e.v.is_transitioning THEN e.v
                    ELSE pygame_held_keys(e.v, 1, e.last_key_time, pressed, ms, t)
        stepped  == handle_step_animation(held, t)
    IN  [ v |-> handle_transition_animation(stepped, t),
          last_key_time |-> e.last_key_time,
          finished |-> /\ held.is_animating
                       /\ t - held.animation_start_time >= animation_duration,
          started |-> stepped.is_transitioning
                      /\ (~v.is_transitioning
                          \/ stepped.transition_start_time # v.transition_start_time) ]

\* TransitionManager.__init__ and load_transition_frames() of the
\* single-directory manager
SingleTransitionManagerInit(frames) ==
    [ is_transitioning |-> FALSE,
      transition_frames |-> frames,
      transition_frame_index |-> 0,
      transition_start_time |-> None,
      transition_direction |-> NoDir,
      pending_image_index |-> None ]

\* the single-directory start_transition(direction, target_index)
single_start_transition(m, direction, target_index, t) ==
    [m EXCEPT !.is_transitioning = TRUE,
              !.transition_frame_index = 0,
              !.transition_start_time = t,
              !.transition_direction = direction,
              !.pending_image_index = target_index]

\* the single-directory update() at clock reading t: the fields it leaves and
\* what it returns
single_update(m, t) ==
    IF ~m.is_transitioning \/ Len(m.transition_frames) = 0
    THEN [tm |-> m, complete |-> FALSE]
    ELSE
    LET elapsed == t - m.transition_start_time
        target  == target_frame(elapsed)
        n       == Len(m.transition_frames)
    IN  IF target >= n
        THEN [tm |-> [m EXCEPT !.is_transitioning = FALSE], complete |-> TRUE]
        ELSE [tm |-> [m EXCEPT !.transition_frame_index =
                                    IF m.transition_direction = "backward"
                                    THEN n - 1 - target ELSE target],
              complete |-> FALSE]

\* the frame lists the folder may hold: none, or three frames
PygameFrames == { << >>, Frames(3) }

\* harness: the viewer, the local last_key_time of run(), the keyboard, the
\* single-directory manager given the viewer's transitions (started where the
\* viewer starts one, updated once per pass), and what the last pass did
PygameInit ==
    /\ now = 0
    /\ clock_time = 0
    /\ images = ViewerImages
    /\ transitions = ViewerTransitions
    /\ current_index = 0
    /\ zc = ZoomControllerInit
    /\ tm = TransitionManagerInit
    /\ ev = NoEvent
    /\ \E frames \in PygameFrames :
          harness = [ kind |-> "pygame",
                      v |-> PygameViewerInit(ViewerImages, frames),
                      last_key_time |-> InputHandlerInit,
                      pressed |-> [key \in KeySet |-> FALSE],
                      manager |-> SingleTransitionManagerInit(frames),
                      finished |-> FALSE, started |-> FALSE, complete |-> FALSE ]

\* one pass of run() at clock reading now; clock.tick ends it next_ms later
PygameRun(events, next_ms) ==
    LET pressed == Keyboard(harness.pressed, events)
        r       == pygame_run(harness.v, harness.last_key_time, events, pressed,
                              clock_time, now)
        begun   == IF r.started
                   THEN single_start_transition(harness.manager, r.v.transition_direction,
                                                r.v.pending_image_index, now)
                   ELSE harness.manager
        u       == single_update(begun, now)
    IN  /\ harness.kind = "pygame"
        /\ now + next_ms <= MaxPygameTime
        /\ harness' = [ kind |-> "pygame", v |-> r.v,
                        last_key_time |-> r.last_key_time,
                        pressed |-> pressed,
                        manager |-> u.tm,
                        finished |-> r.finished, started |-> r.started,
                        complete |-> u.complete ]
        /\ ev' = [NoEvent EXCEPT !.op = "run", !.t = now]
        /\ now' = now + next_ms
        /\ clock_time' = next_ms
        /\ UNCHANGED <<images, transitions, current_index, zc, tm>>

PygameNext ==
    \E events \in EventQueues(harness.pressed, 1), next_ms \in FrameTimes :
        PygameRun(events, next_ms)

SpecPygame == PygameInit /\ [][PygameNext]_vars

(***************************************************************************)
(* The frame cache of src/image_sequence_player.py: the main loop and the  *)
(* preload workers it starts call load_frame, one statement at a time      *)
(***************************************************************************)
\* the main thread; the workers are 1..MaxWorkers
MainThread == 0

Workers == 1..MaxWorkers

\* no thread holds the lock
NoThread == -1

\* list.remove(x): the list without its first x
RemoveFirst(list, x) ==
    LET k == CHOOSE k \in 1..Len(list) :
                 list[k] = x /\ \A j \in 1..(k - 1) : list[j] # x
    IN  SubSeq(list, 1, k - 1) \o SubSeq(list, k + 1, Len(list))

InList(list, x) == \E k \in 1..Len(list) : list[k] = x

\* the ghost orders: the list with x moved or added to its end
Touched(list, x) == Append(IF InList(list, x) THEN RemoveFirst(list, x) ELSE list, x)

\* cache_order.pop() taking the newest entry
pop_newest(cache_order) ==
    [ oldest |-> cache_order[Len(cache_order)],
      cache_order |-> SubSeq(cache_order, 1, Len(cache_order) - 1) ]

\* oldest = cache_order.pop(0): the entry and the list it leaves
pop_oldest(cache_order) ==
    [ oldest |-> cache_order[1], cache_order |-> Tail(cache_order) ]

\* entering 'with preload_lock' whoever holds the lock
preload_lock_unguarded(preload_lock) == TRUE

\* 'with preload_lock' can be entered: the lock is free
preload_lock_free(preload_lock) == preload_lock = NoThread

\* range(current_frame + 1, min(current_frame + count + 1, total_frames)) for
\* direction > 0, range(current_frame - 1, max(current_frame - count - 1, -1), -1)
\* for direction < 0
RECURSIVE PreloadRange(_, _, _)
PreloadRange(frame, direction, count) ==
    LET i == frame + direction
    IN  IF count = 0 \/ i < 0 \/ i >= TotalFrames THEN << >>
        ELSE << i >> \o PreloadRange(i, direction, count - 1)

\* a thread outside load_frame and the worker loop
IdleThread == [pc |-> "idle", frame_index |-> None, queue |-> << >>,
               oldest |-> None, surface |-> "none"]

\* the sets of frame files cv2.imread cannot read
UnreadableFrames == { {}, {1} }

\* harness: the module's state after 'load_frame(0)' and
\* 'preload_frames_ahead(0, 1, 50)': frame 0 is cached if readable and the
\* first worker is about to start.  recency and loaded are the cached indices
\* in the order of their last use and of their loading
CacheInit ==
    /\ now = 0
    /\ clock_time = 0
    /\ images = ViewerImages
    /\ transitions = ViewerTransitions
    /\ current_index = 0
    /\ zc = ZoomControllerInit
    /\ tm = TransitionManagerInit
    /\ ev = NoEvent
    /\ \E unreadable \in UnreadableFrames :
          harness = [ kind |-> "cache",
                      unreadable |-> unreadable,
                      surface_cache |-> {0},
                      cache_order |-> << 0 >>,
                      preload_lock |-> NoThread,
                      current_frame |-> 0,
                      last_preload_frame |-> 0,
                      recency |-> << 0 >>,
                      loaded |-> << 0 >>,
                      threads |-> [th \in {MainThread} \cup Workers |->
                                     IF th = MainThread THEN [IdleThread EXCEPT !.pc = "loop"]
                                     ELSE IF th = 1
                                     THEN [IdleThread EXCEPT !.pc = "next",
                                               !.queue = PreloadRange(0, 1, initial_preload_count)]
                                     ELSE IdleThread] ]

\* the harness with thread th changed to the record t
WithThread(h, th, t) == [h EXCEPT !.threads[th] = t]

\* the next statement of load_frame(frame_index) in thread th
load_frame(h, th) ==
    LET t  == h.threads[th]
        i  == t.frame_index
        At(pc) == [t EXCEPT !.pc = pc]
    IN  CASE t.pc = "acquire" ->
               [WithThread(h, th, [At("test") EXCEPT !.surface = "none", !.oldest = None])
                   EXCEPT !.preload_lock = th]
          [] t.pc = "test" ->
               IF i \in h.surface_cache
               THEN IF InList(h.cache_order, i) THEN WithThread(h, th, At("remove"))
                    ELSE WithThread(h, th, [At("release") EXCEPT !.surface = "hit"])
               ELSE WithThread(h, th, At("load"))
          [] t.pc = "remove" ->
               [WithThread(h, th, At("append_hit"))
                   EXCEPT !.cache_order = RemoveFirst(h.cache_order, i)]
          [] t.pc = "append_hit" ->
               [WithThread(h, th, [At("release") EXCEPT !.surface = "hit"])
                   EXCEPT !.cache_order = Append(h.cache_order, i),
                          !.recency = Touched(h.recency, i)]
          [] t.pc = "load" ->
               IF i < 0 \/ i >= TotalFrames \/ i \in h.unreadable
               THEN WithThread(h, th, At("release"))
               ELSE [WithThread(h, th, At("append"))
                        EXCEPT !.surface_cache = h.surface_cache \cup {i}]
          [] t.pc = "append" ->
               [WithThread(h, th, [At("evict") EXCEPT !.surface = "miss"])
                   EXCEPT !.cache_order = Append(h.cache_order, i),
                          !.recency = Touched(h.recency, i),
                          !.loaded = Touched(h.loaded, i)]
          [] t.pc = "evict" ->
               IF Len(h.cache_order) > CACHE_SIZE
               THEN LET p == pop_oldest(h.cache_order)
                    IN  [WithThread(h, th, [At("del") EXCEPT !.oldest = p.oldest])
                            EXCEPT !.cache_order = p.cache_order]
               ELSE WithThread(h, th, At("release"))
          [] t.pc = "del" ->
               [WithThread(h, th, At("evict"))
                   EXCEPT !.surface_cache = h.surface_cache \ {t.oldest},
                          !.recency = IF InList(h.recency, t.oldest)
                                      THEN RemoveFirst(h.recency, t.oldest) ELSE h.recency,
                          !.loaded = IF InList(h.loaded, t.oldest)
                                     THEN RemoveFirst(h.loaded, t.oldest) ELSE h.loaded]
          [] t.pc = "release" ->
               [WithThread(h, th, At(IF th = MainThread THEN "preload" ELSE "next"))
                   EXCEPT !.preload_lock = NoThread]

LoadFramePcs == {"acquire", "test", "remove", "append_hit", "load", "append",
                 "evict", "del", "release"}

CacheStep(h) ==
    /\ harness' = h
    /\ ev' = [NoEvent EXCEPT !.op = "load_frame"]
    /\ UNCHANGED <<now, clock_time, images, transitions, current_index, zc, tm>>

\* a thread inside load_frame runs its next statement
LoadFrameStep(th) ==
    /\ harness.kind = "cache"
    /\ harness.threads[th].pc \in LoadFramePcs
    /\ harness.threads[th].pc = "acquire" => preload_lock_free(harness.preload_lock)
    /\ CacheStep(load_frame(harness, th))

\* the main loop with UP or DOWN held: current_frame moves by one and
\* load_frame(current_frame) is called
MainLoop(direction) ==
    LET frame == IF direction > 0
                 THEN IF harness.current_frame + 1 < TotalFrames - 1
                      THEN harness.current_frame + 1 ELSE TotalFrames - 1
                 ELSE IF harness.current_frame - 1 > 0
                      THEN harness.current_frame - 1 ELSE 0
    IN  /\ harness.kind = "cache"
        /\ harness.threads[MainThread].pc = "loop"
        /\ CacheStep([WithThread(harness, MainThread,
                                 [IdleThread EXCEPT !.pc = "acquire", !.frame_index = frame,
                                                    !.queue = << direction >>])
                         EXCEPT !.current_frame = frame])

\* the main loop after load_frame: every fifth frame it calls
\* preload_frames_ahead(current_frame, direction, 60), which starts a worker
MainPreload ==
    LET direction == harness.threads[MainThread].queue[1]
        due       == /\ harness.current_frame % 5 = 0
                     /\ harness.current_frame # harness.last_preload_frame
        back      == [IdleThread EXCEPT !.pc = "loop"]
    IN  /\ harness.kind = "cache"
        /\ harness.threads[MainThread].pc = "preload"
        /\ IF due
           THEN \E w \in Workers :
                   /\ harness.threads[w].pc = "idle"
                   /\ \A u \in Workers : u < w => harness.threads[u].pc # "idle"
                   /\ CacheStep([harness EXCEPT
                          !.threads[MainThread] = back,
                          !.threads[w] = [IdleThread EXCEPT !.pc = "next",
                                !.queue = PreloadRange(harness.current_frame, direction,
                                                       preload_count)],
                          !.last_preload_frame = harness.current_frame])
           ELSE CacheStep(WithThread(harness, MainThread, back))

\* preload_worker: the next i of its range, 'if i not in surface_cache:
\* load_frame(i)', the test made without the lock
WorkerStep(w) ==
    LET t == harness.threads[w]
    IN  /\ harness.kind = "cache"
        /\ t.pc = "next"
        /\ CacheStep(WithThread(harness, w,
              IF t.queue = << >> THEN IdleThread
              ELSE IF t.queue[1] \notin harness.surface_cache
              THEN [t EXCEPT !.pc = "acquire", !.frame_index = t.queue[1],
                             !.queue = Tail(t.queue)]
              ELSE [t EXCEPT !.queue = Tail(t.queue)]))

CacheNext ==
    \/ \E direction \in {1, -1} : MainLoop(direction)
    \/ MainPreload
    \/ \E w \in Workers : WorkerStep(w)
    \/ \E th \in {MainThread} \cup Workers : LoadFrameStep(th)

SpecCache == CacheInit /\ [][CacheNext]_vars

(***************************************************************************)
(* What the last operation did, read from ev                               *)
(***************************************************************************)
\* update() ran update_step_animation
Animated(e) == e.op # "init" /\ e.input.is_animating

\* the elapsed time update_step_animation computed
Elapsed(e) == e.t - e.input.animation_start_time

\* the scale update() left is outside [min_scale, current_max_scale]
Outside(z) == z.scale > z.current_max_scale \/ z.scale < min_scale

Between(a, x, b) == (a <= x /\ x <= b) \/ (b <= x /\ x <= a)

Dist(a, b) == IF a >= b THEN a - b ELSE b - a

(***************************************************************************)
(* C2.  A step animation is cancelled in the update() call in which its    *)
(* interpolated scale first crosses a boundary: when update_step_animation *)
(* computes, with progress < 1, a scale above current_max_scale or below   *)
(* min_scale, it returns that boundary's direction and is_animating is     *)
(* false when it returns; and while no new zoom_step is issued no later    *)
(* update() runs the animation or moves scale.                             *)
(***************************************************************************)
C2_CrossingCancels ==
    (Animated(ev) /\ Elapsed(ev) < animation_duration /\ Outside(ev.updated))
        => /\ ev.boundary = IF ev.updated.scale > ev.updated.current_max_scale
                            THEN "forward" ELSE "backward"
           /\ ~ev.updated.is_animating
           /\ ~zc.is_animating

C2_NoLaterInterpolation ==
    (~zc.is_animating /\ ev'.op # "init" /\ ev'.step = NoDir)
        => /\ ~Animated(ev')
           /\ ev'.updated.scale = ev'.input.scale
           /\ ev'.updated.target_scale = zc.target_scale

C2_StepAnimationCancelledAtCrossing ==
    [](C2_CrossingCancels) /\ [][C2_NoLaterInterpolation]_vars

\* a step animation crossed the upper boundary before its end
C2_Witness ==
    /\ Animated(ev) /\ 0 < Elapsed(ev) /\ Elapsed(ev) < animation_duration
    /\ ev.updated.scale > ev.updated.current_max_scale
    /\ ev.boundary = "forward"

(***************************************************************************)
(* C3.  Monotonic convergence of a step animation: every scale that        *)
(* update_step_animation leaves lies between start_scale and target_scale  *)
(* inclusive; from one update of an animation to its next the distance to  *)
(* target_scale does not grow; and the first update with                   *)
(* elapsed >= animation_duration leaves scale = target_scale and           *)
(* is_animating false, also when a frame took longer than the duration.    *)
(***************************************************************************)
C3_WithinAndExact ==
    Animated(ev)
        => /\ Between(ev.input.start_scale, ev.updated.scale, ev.input.target_scale)
           /\ (Elapsed(ev) >= animation_duration
                  => ev.updated.scale = ev.input.target_scale /\ ~ev.updated.is_animating)
           /\ (Elapsed(ev) = 0 => ev.updated.scale = ev.input.start_scale)

C3_Approaches ==
    (Animated(ev) /\ ev.updated.is_animating /\ Animated(ev') /\ ev'.step = NoDir)
        => /\ ev'.input.target_scale = ev.input.target_scale
           /\ ev'.input.start_scale = ev.input.start_scale
           /\ Elapsed(ev') > Elapsed(ev)
           /\ Dist(ev'.updated.scale, ev.input.target_scale)
                 <= Dist(ev.updated.scale, ev.input.target_scale)

C3_MonotonicConvergence ==
    [](C3_WithinAndExact) /\ [][C3_Approaches]_vars

\* an animation sampled once mid-flight and then ended by a frame longer than
\* its duration
C3_Witness ==
    /\ Animated(ev) /\ clock_time > animation_duration
    /\ Elapsed(ev) > animation_duration
    /\ ev.step = NoDir
    /\ ev.updated.scale = ev.input.target_scale
    /\ ev.input.target_scale # ev.input.start_scale

C10_IndexMovesOnlyAtCompletion ==
    current_index' # current_index
        => /\ ev'.complete
           /\ is_active(tm) \/ ev'.started
           /\ ~is_active(tm')
           /\ ~zc'.is_animating /\ ~ev'.updated.is_animating
           /\ current_index' = IF tm'.transition_direction = "forward"
                               THEN current_index + 1 ELSE current_index - 1

C10_PlayerPositionCopied ==
    /\ ev'.complete => current_index' # current_index
    /\ tm'.transition_idx # tm.transition_idx
          => ev'.complete /\ current_index' = tm'.transition_idx

C10_CatalogPositionAmended ==
    [][C10_IndexMovesOnlyAtCompletion /\ C10_PlayerPositionCopied]_vars

\* the claim as written: the index moves only at completion, by one step in the
\* direction of travel, and the Transition Player holds no position that moves
C10_CatalogPositionOriginal ==
    [][C10_IndexMovesOnlyAtCompletion /\ tm'.transition_idx = tm.transition_idx]_vars

\* a backward transition of several frames has completed and moved the catalog back
C10_Witness ==
    /\ ev.complete /\ ev.active /\ tm.transition_direction = "backward"
    /\ current_index = 0 /\ tm.transition_idx = 0
    /\ Len(tm.current_transition_frames) > 0

(***************************************************************************)
(* The transition update() last ran on, read from ev and tm                *)
(***************************************************************************)
\* the last operation was update() on a playing transition
Played == ev.op = "transition_update" /\ ev.active

\* the elapsed time that update() computed
PlayedElapsed == ev.t - tm.transition_start_time

\* the number of frames of the transition
PlayedFrames == Len(tm.current_transition_frames)

(***************************************************************************)
(* C6.  An empty transition completes immediately: after start_transition  *)
(* selects a frame list of length zero, the first update() call returns    *)
(* True and leaves is_transitioning false, in both directions and at any   *)
(* elapsed time >= 0.                                                      *)
(***************************************************************************)
C6_EmptyTransitionCompletes ==
    (Played /\ harness.updates = 1 /\ PlayedFrames = 0)
        => ev.complete /\ ~is_active(tm)

\* the first update() of an empty backward transition, called 100 ms after its start
C6_Witness ==
    /\ Played /\ harness.updates = 1 /\ PlayedFrames = 0
    /\ tm.transition_direction = "backward" /\ PlayedElapsed = 100
    /\ ev.complete

(***************************************************************************)
(* C7.  Transition completion time, as amended: at 30 fps a frame lasts    *)
(* 1000/30 ms, so update() on a transition of 16 frames returns True       *)
(* exactly when elapsed >= 534 ms (at 533 ms it returns False) and on one  *)
(* of 10 frames exactly when elapsed >= 334 ms (at 333 ms it returns       *)
(* False); update() at elapsed = 0 returns False with frame index 0 for    *)
(* the forward direction.                                                  *)
(***************************************************************************)
C7_CompletionTimeAmended ==
    Played
        => /\ PlayedFrames = 16 => (ev.complete <=> PlayedElapsed >= 534)
           /\ PlayedFrames = 10 => (ev.complete <=> PlayedElapsed >= 334)
           /\ (PlayedElapsed = 0 /\ PlayedFrames > 0 /\ tm.transition_direction = "forward")
                 => ~ev.complete /\ tm.transition_frame_index = 0

\* the claim as written: complete once elapsed reaches N * 33.3 ms, and so at
\* 333 ms for 10 frames and at the first clock reading past 532.8 ms for 16
C7_CompletionTimeOriginal ==
    Played
        => /\ (PlayedFrames \in {10, 16} /\ 10 * PlayedElapsed >= 333 * PlayedFrames)
                 => ev.complete
           /\ (PlayedElapsed = 0 /\ PlayedFrames > 0 /\ tm.transition_direction = "forward")
                 => ~ev.complete /\ tm.transition_frame_index = 0

\* a transition of 16 frames completes at 534 ms
C7_Witness ==
    Played /\ PlayedFrames = 16 /\ PlayedElapsed = 534 /\ ev.complete

(***************************************************************************)
(* C8.  The frame a transition shows is a function of the elapsed time and *)
(* the direction only, whatever the number of update() calls: while not    *)
(* complete, forward playback shows frame int(elapsed / frame_duration),   *)
(* backward playback shows N-1 minus it (N-1 at elapsed 0); from one       *)
(* update() to the next the forward index does not decrease and the        *)
(* backward index does not increase; and update() completes exactly when   *)
(* int(elapsed / frame_duration) has reached N, on every schedule.         *)
(***************************************************************************)
C8_FunctionOfElapsed ==
    Played
        => LET f == target_frame(PlayedElapsed)
               n == PlayedFrames
           IN  /\ ev.complete <=> f >= n
               /\ ev.complete => PlayedElapsed * transition_fps >= n * 1000
               /\ ~ev.complete
                     => /\ tm.transition_frame_index =
                              IF tm.transition_direction = "backward" THEN n - 1 - f ELSE f
                        /\ f * 1000 <= PlayedElapsed * transition_fps
                        /\ PlayedElapsed * transition_fps <= (f + 1) * 1000
               /\ (PlayedElapsed = 0 /\ n > 0 /\ tm.transition_direction = "backward")
                     => tm.transition_frame_index = n - 1

C8_Monotone ==
    (is_active(tm) /\ harness.updates >= 1 /\ is_active(tm') /\ ev'.op = "transition_update")
        => IF tm.transition_direction = "backward"
           THEN tm'.transition_frame_index <= tm.transition_frame_index
           ELSE tm'.transition_frame_index >= tm.transition_frame_index

C8_FrameFromElapsedTime ==
    [](C8_FunctionOfElapsed) /\ [][C8_Monotone]_vars

\* the first update() of a backward transition comes 300 ms after its start
\* and shows the frame a run updated every 33 ms shows at that time
C8_Witness ==
    /\ Played /\ harness.updates = 1 /\ PlayedElapsed = 300
    /\ tm.transition_direction = "backward" /\ PlayedFrames = 16
    /\ tm.transition_frame_index = 6

(***************************************************************************)
(* C1.  Boundary symmetry: over one monotonic sweep of scale from 1.0 to   *)
(* above the image's max_scale M, by step animation or by continuous zoom, *)
(* each input followed by update(), update() returns 'forward' exactly     *)
(* once, in the first update that leaves scale > M; over a sweep from M    *)
(* to below 1.0 it returns 'backward' exactly once, in the first update    *)
(* that leaves scale < 1.0; no update of the sweep returns another event.  *)
(***************************************************************************)
C1_BoundarySymmetry ==
    harness.kind = "sweep"
        => /\ harness.forward =
                 IF harness.direction = "in" /\ harness.crossed THEN 1 ELSE 0
           /\ harness.backward =
                 IF harness.direction = "out" /\ harness.crossed THEN 1 ELSE 0
           /\ harness.crossed <=> Outside(zc)
           /\ ev.boundary # NoDir <=> (ev.op = "sweep" /\ harness.after = 0 /\ harness.crossed)

\* a sweep upward by steps has crossed max_scale = 2.0 in the middle of its
\* third animation, and update() has been called twice since
C1_Witness ==
    /\ harness.kind = "sweep" /\ harness.direction = "in" /\ harness.mode = "step"
    /\ zc.current_max_scale = 2 * Unit
    /\ harness.crossed /\ harness.after = MaxAfterSweep
    /\ harness.forward = 1 /\ harness.backward = 0
    /\ zc.scale > zc.current_max_scale /\ zc.scale < zc.target_scale

(***************************************************************************)
(* C4.  Frame-rate independence of continuous zoom: from the same starting *)
(* scale, zoom_continuous calls in one direction whose dt add up to T      *)
(* leave the scale a single zoom_continuous call with dt = T leaves (ten   *)
(* calls with dt = 0.1 against one with dt = 1.0 among them), within the   *)
(* rounding of the arithmetic: one part in 10000 of the scale, plus one    *)
(* count, per call.                                                        *)
(***************************************************************************)
Tolerance(calls, s) == calls * (s \div 10000 + 1)

C4_FrameRateIndependence ==
    (harness.kind = "zoom" /\ harness.calls >= 1)
        => LET single == continuous_scale(harness.start, harness.direction, harness.total)
           IN  /\ Dist(zc.scale, single) <= Tolerance(harness.calls, single)
               /\ harness.calls = 1 => zc.scale = single
               /\ zc.continuous_zoom_active

\* ten calls with dt = 0.1 from scale 1.0 have doubled the scale
C4_Witness ==
    /\ harness.kind = "zoom" /\ harness.direction = "in" /\ harness.start = Unit
    /\ harness.calls = 10 /\ harness.total = 1000
    /\ Dist(zc.scale, 2 * Unit) <= Tolerance(10, 2 * Unit)

(***************************************************************************)
(* C5.  End-to-end scenario on a two-image catalog (image 0 with max_scale *)
(* 3.0 and a ten-frame transition, image 1 without target rectangle),      *)
(* from image 0 at scale 1.0.  Four zoom_step('in') calls, each fully      *)
(* animated, produce no boundary event and leave the scale below 3.0.      *)
(* After the fifth, update() returns 'forward' once, in the first update   *)
(* that leaves the scale above 3.0, and the transition starts in that      *)
(* iteration; when the transition completes, the catalog index is 1,       *)
(* current_max_scale is 1.0 and scale is min_scale.                        *)
(* Amended: that update finds the animation short of its target when it    *)
(* comes less than animation_duration after the step, and at its target    *)
(* otherwise.  Original: it always finds the animation short of its target.*)
(***************************************************************************)
C5_Scenario ==
    /\ harness.steps < E2ESteps
          => /\ harness.boundaries = 0 /\ current_index = 0 /\ ~is_active(tm)
             /\ zc.scale < zc.current_max_scale
    /\ ev.boundary # NoDir
          => /\ ev.boundary = "forward" /\ ev.started
             /\ ev.updated.scale > 3 * Unit /\ ~ev.updated.is_animating
    /\ harness.boundaries <= 1
    /\ harness.boundaries = 1
          => /\ harness.steps = E2ESteps
             /\ harness.fired_scale > 3 * Unit
             /\ is_active(tm) \/ current_index = 1
    /\ is_active(tm)
          => /\ current_index = 0 /\ harness.boundaries = 1
             /\ tm.transition_direction = "forward"
             /\ Len(tm.current_transition_frames) = 10
             /\ zc.scale = harness.fired_scale
    /\ (current_index = 0 /\ ~is_active(tm)) => ~Outside(zc)
    /\ ev.complete
          => /\ ~is_active(tm) /\ harness.boundaries = 1
             /\ ev.t - tm.transition_start_time >= 334
    /\ current_index = 1
          => /\ ~is_active(tm) /\ zc.current_max_scale = Unit
             /\ zc.scale = min_scale /\ ~zc.is_animating

C5_ForwardAtCrossingOrTarget ==
    harness.boundaries = 1
        => /\ harness.fired_at < animation_duration
                => harness.fired_scale < harness.fired_target
           /\ harness.fired_at >= animation_duration
                => harness.fired_scale = harness.fired_target

C5_ForwardBeforeTarget ==
    harness.boundaries = 1 => harness.fired_scale < harness.fired_target

C5_EndToEndAmended ==
    harness.kind = "e2e" => (C5_Scenario /\ C5_ForwardAtCrossingOrTarget)

C5_EndToEndOriginal ==
    harness.kind = "e2e" => (C5_Scenario /\ C5_ForwardBeforeTarget)

\* the fifth step crossed 3.0 a third of the way through its animation, and
\* the transition it started has just completed
C5_Witness ==
    /\ harness.kind = "e2e" /\ harness.steps = E2ESteps /\ harness.boundaries = 1
    /\ harness.fired_at = 100 /\ harness.fired_scale < harness.fired_target
    /\ ev.complete /\ current_index = 1
    /\ zc.scale = min_scale /\ zc.current_max_scale = Unit

(***************************************************************************)
(* C11.  Landing scale after a transition: in the iteration in which a     *)
(* transition completes, current_max_scale becomes the new image's         *)
(* max_scale, and scale becomes min_scale after a forward transition and   *)
(* the new image's max_scale after a backward one; the next update()       *)
(* without new input reports no boundary event.                            *)
(***************************************************************************)
C11_Landed ==
    ev.complete
        => /\ zc.current_max_scale = current_max(images, current_index)
           /\ zc.scale = IF tm.transition_direction = "backward"
                         THEN current_max(images, current_index) ELSE min_scale
           /\ ~Outside(zc) /\ ~zc.is_animating

C11_QuietAfterLanding ==
    (ev.complete /\ ev'.step = NoDir /\ ev'.cont = NoDir)
        => ev'.boundary = NoDir /\ zc'.scale = zc.scale

C11_LandingScale == [](C11_Landed) /\ [][C11_QuietAfterLanding]_vars

\* a backward transition has completed and landed on image 0 at its max_scale 1.2
C11_Witness ==
    /\ ev.op = "tick" /\ ev.complete /\ tm.transition_direction = "backward"
    /\ current_index = 0
    /\ zc.scale = (12 * Unit) \div 10 /\ zc.scale > min_scale
    /\ zc.current_max_scale = zc.scale

(***************************************************************************)
(* C12.  A boundary crossing with no neighbour is absorbed by clamping:    *)
(* when update() reports 'forward' on the last image or 'backward' on the  *)
(* first, no transition starts, the catalog index does not change, and     *)
(* the iteration leaves scale at current_max_scale for 'forward' and at    *)
(* min_scale for 'backward'.                                               *)
(***************************************************************************)
C12_Absorbed ==
    /\ (ev'.boundary = "forward" /\ ~can_go_next(images, current_index))
          => /\ ~ev'.started /\ ~ev'.complete /\ ~is_active(tm')
             /\ current_index' = current_index /\ tm' = tm
             /\ zc'.scale = zc'.current_max_scale
             /\ zc'.current_max_scale = zc.current_max_scale
    /\ (ev'.boundary = "backward" /\ ~can_go_previous(current_index))
          => /\ ~ev'.started /\ ~ev'.complete /\ ~is_active(tm')
             /\ current_index' = current_index /\ tm' = tm
             /\ zc'.scale = min_scale
             /\ zc'.current_max_scale = zc.current_max_scale

C12_NoNeighbourClamps == [][C12_Absorbed]_vars

\* on the last image a zoom-in went past max_scale and was clamped back to it
C12_Witness ==
    /\ ev.op = "tick" /\ ev.boundary = "forward" /\ ~ev.started
    /\ current_index = Len(images) - 1
    /\ ev.updated.scale > zc.current_max_scale
    /\ zc.scale = zc.current_max_scale

(***************************************************************************)
(* C14.  For an image without a target rectangle (current_max_scale =      *)
(* min_scale = 1.0), no sequence of zoom_step('in') and                    *)
(* zoom_continuous('in', dt) inputs followed by the iteration's update     *)
(* leaves scale above min_scale in a state the renderer draws the image    *)
(* in: the zoom-in is not visible or is clamped in the same iteration.     *)
(***************************************************************************)
C14_NeverAboveMin ==
    (zc.current_max_scale = min_scale /\ ~is_active(tm))
        => /\ zc.scale = min_scale
           /\ current_max(images, current_index) = min_scale

C14_ZoomInAbsorbed ==
    (zc.current_max_scale = min_scale /\ ~is_active(tm)
        /\ (zc.is_animating => zc.target_scale >= min_scale)
        /\ ev'.step # "out" /\ ev'.cont # "out")
        => /\ zc'.scale = min_scale /\ zc'.current_max_scale = min_scale
           /\ current_index' = current_index /\ ~is_active(tm')

C14_NoZoomWithoutRect == [](C14_NeverAboveMin) /\ [][C14_ZoomInAbsorbed]_vars

\* on the image without target rectangle, a step animation took the scale above
\* 1.0 and the same iteration clamped it back
C14_Witness ==
    /\ ev.op = "tick" /\ Animated(ev) /\ Elapsed(ev) > 0
    /\ zc.current_max_scale = min_scale /\ ~is_active(tm)
    /\ ev.updated.scale > min_scale /\ ev.boundary = "forward"
    /\ zc.scale = min_scale /\ ~zc.is_animating

(***************************************************************************)
(* The image loaded and the frame drawn, read from harness                 *)
(***************************************************************************)
ImageLoaded == harness.kind = "render" /\ harness.phase # "config"

FrameDrawn == harness.kind = "render" /\ harness.phase = "drawn"

One == RInt(1)

\* the rectangle the catalog entry configures, in surface space: <<>> or <<rect>>
ConfiguredRect ==
    get_rect(harness.image.config, harness.image.original, harness.image.scale, "surface")

(***************************************************************************)
(* C13.  get_normalized_zoom() never fails: when current_max_scale equals  *)
(* min_scale it returns 0.0, with no division by zero and no exception,    *)
(* also when the renderer calls it for an image whose target rectangle     *)
(* yields max_scale exactly 1.0.                                           *)
(***************************************************************************)
C13_NormalizedZoomNeverFails ==
    FrameDrawn
        => /\ harness.draw.error # "ZeroDivisionError"
           /\ (harness.draw.drawn = "zoomed" /\ harness.current_max_scale = One)
                 => harness.draw.normalized_zoom = RInt(0)

\* the renderer drew an image whose rectangle is the whole image: max_scale is
\* exactly 1.0 and get_normalized_zoom() raised
C13_Witness ==
    /\ FrameDrawn /\ ConfiguredRect # << >>
    /\ harness.image.max_scale = One /\ harness.current_max_scale = One
    /\ harness.scale = One
    /\ harness.draw.error = "ZeroDivisionError" /\ harness.draw.drawn = "nothing"

(***************************************************************************)
(* C15.  Every image record the loader produces has max_scale >= min_scale *)
(* (1.0): max_scale is min(viewportW / rect.width, viewportH / rect.height)*)
(* on the rectangle in surface space when a target rectangle is            *)
(* configured, and 1.0 when none is.                                       *)
(***************************************************************************)
C15_MaxScaleAtLeastMin ==
    (ImageLoaded /\ harness.image.error = NoError)
        => /\ RLe(One, harness.image.max_scale)
           /\ harness.image.max_scale =
                 IF ConfiguredRect = << >> THEN One
                 ELSE RMin(RDiv(RInt(harness.viewport_dims[1]), ConfiguredRect[1].width),
                           RDiv(RInt(harness.viewport_dims[2]), ConfiguredRect[1].height))

\* the loader produced a record with max_scale 1/2 for a rectangle twice the
\* size of the image
C15_Witness ==
    /\ ImageLoaded /\ harness.image.error = NoError
    /\ ConfiguredRect # << >>
    /\ harness.image.max_scale = Rat(1, 2)

(***************************************************************************)
(* C16.  A missing or invalid target rectangle (absent, of wrong length,   *)
(* or with zero width or height) is treated as no zoom available: loading  *)
(* the image yields max_scale = min_scale = 1.0 and raises no error.       *)
(***************************************************************************)
RectMissingOrInvalid ==
    \/ ConfiguredRect = << >>
    \/ ConfiguredRect[1].width = RInt(0)
    \/ ConfiguredRect[1].height = RInt(0)

C16_InvalidRectMeansNoZoom ==
    (ImageLoaded /\ RectMissingOrInvalid)
        => /\ harness.image.error = NoError
           /\ harness.image.max_scale = One

\* loading an entry whose nextRect has zero width raised ZeroDivisionError
C16_Witness ==
    /\ harness.kind = "render" /\ harness.phase = "failed"
    /\ ConfiguredRect # << >> /\ ConfiguredRect[1].width = RInt(0)
    /\ harness.image.error = "ZeroDivisionError"

(***************************************************************************)
(* The frame drawn zoomed, read from harness                               *)
(***************************************************************************)
DrawnZoomed == FrameDrawn /\ harness.draw.error = NoError /\ harness.draw.drawn = "zoomed"

ViewportW == RInt(harness.viewport_dims[1])

ViewportH == RInt(harness.viewport_dims[2])

BaseW == RInt(harness.image.surface[1])

BaseH == RInt(harness.image.surface[2])

Zero == RInt(0)

RAbs(a) == IF a.n >= 0 THEN a ELSE [n |-> -a.n, d |-> a.d]

\* a and b differ by at most one pixel
Within1px(a, b) == RLe(RAbs(RSub(a, b)), One)

\* the configured rectangle lies inside the base surface and is not empty
RectInsideBase ==
    /\ ConfiguredRect # << >>
    /\ RLe(Zero, ConfiguredRect[1].x) /\ RLe(Zero, ConfiguredRect[1].y)
    /\ RLt(Zero, ConfiguredRect[1].width) /\ RLt(Zero, ConfiguredRect[1].height)
    /\ RLe(RAdd(ConfiguredRect[1].x, ConfiguredRect[1].width), BaseW)
    /\ RLe(RAdd(ConfiguredRect[1].y, ConfiguredRect[1].height), BaseH)

\* the rectangle has the aspect ratio of the viewport
RectHasViewportAspect ==
    RMul(ConfiguredRect[1].width, ViewportH) = RMul(ConfiguredRect[1].height, ViewportW)

\* the frame was drawn at scale = max_scale, normalized zoom 1
AtFullZoom ==
    /\ DrawnZoomed /\ RectInsideBase
    /\ harness.scale = harness.current_max_scale
    /\ harness.draw.normalized_zoom = One

\* the frame was drawn at scale = 1.0, normalized zoom 0
AtBaseZoom ==
    /\ DrawnZoomed /\ RectInsideBase
    /\ harness.scale = One
    /\ harness.draw.normalized_zoom = Zero

\* the rectangle outlined is the whole viewport, within a pixel
RectFillsViewport ==
    /\ Within1px(harness.draw.rect_viewport_x, Zero)
    /\ Within1px(harness.draw.rect_viewport_y, Zero)
    /\ Within1px(harness.draw.rect_viewport_w, ViewportW)
    /\ Within1px(harness.draw.rect_viewport_h, ViewportH)

Centered == draw_centered_image(harness.viewport_dims, harness.image)

RelX == RDiv(RAdd(ConfiguredRect[1].x, RDiv(ConfiguredRect[1].width, RInt(2))), BaseW)

RelY == RDiv(RAdd(ConfiguredRect[1].y, RDiv(ConfiguredRect[1].height, RInt(2))), BaseH)

C18_BaseZoomOriginal ==
    AtBaseZoom
        => /\ harness.draw.image_pos_x = Centered.x
           /\ harness.draw.image_pos_y = Centered.y

C18_BaseZoomAmended ==
    AtBaseZoom
        => /\ harness.draw.image_pos_x = RMul(RelX, RSub(ViewportW, BaseW))
           /\ harness.draw.image_pos_y = RMul(RelY, RSub(ViewportH, BaseH))
           /\ (BaseW = ViewportW \/ RelX = Rat(1, 2)) <=> harness.draw.image_pos_x = Centered.x
           /\ (BaseH = ViewportH \/ RelY = Rat(1, 2)) <=> harness.draw.image_pos_y = Centered.y
           /\ harness.draw.scaled.path = "simple"
           /\ harness.draw.scaled.adjusted_pos_x = harness.draw.image_pos_x
           /\ harness.draw.scaled.adjusted_pos_y = harness.draw.image_pos_y

\* a base surface narrower than the viewport with a rectangle right of its
\* centre is drawn at base zoom right of the centered position
C18_Witness ==
    /\ AtBaseZoom /\ RLt(BaseW, ViewportW) /\ RLt(Rat(1, 2), RelX)
    /\ RLt(Centered.x, harness.draw.image_pos_x)
    /\ harness.draw.image_pos_y = Centered.y

(***************************************************************************)
(* What _scale_image_optimized returned, read from harness                 *)
(***************************************************************************)
\* _scale_image_optimized was called, by draw_frame or directly, and returned
Scaled ==
    /\ harness.kind = "render" /\ harness.phase \in {"drawn", "scaled"}
    /\ harness.draw.drawn \in {"zoomed", "scaled"}

AtOrAboveThreshold == RLe(CROP_THRESHOLD, harness.scale)

CropLeft == harness.draw.scaled.crop[1]

CropTop == harness.draw.scaled.crop[2]

CropRight == harness.draw.scaled.crop[1] + harness.draw.scaled.crop[3]

CropBottom == harness.draw.scaled.crop[2] + harness.draw.scaled.crop[4]

\* the full base surface scaled by scale, at the unadjusted image position
FullSurfaceReturned ==
    /\ harness.draw.scaled.width = RMul(BaseW, harness.scale)
    /\ harness.draw.scaled.height = RMul(BaseH, harness.scale)
    /\ harness.draw.scaled.adjusted_pos_x = harness.draw.image_pos_x
    /\ harness.draw.scaled.adjusted_pos_y = harness.draw.image_pos_y

(***************************************************************************)
(* C19.  Crop safety and fallback: in _scale_image_optimized with scale at *)
(* or above the threshold, the original surface is cropped only with a     *)
(* rectangle of strictly positive width and height inside the original's   *)
(* bounds (0 <= left < right <= W, 0 <= top < bottom <= H); for every      *)
(* other result the function returns the full base surface scaled by       *)
(* scale at the unadjusted imagePos; it never raises.                      *)
(***************************************************************************)
C19_CropSafety ==
    Scaled
        => /\ harness.draw.scaled.error = NoError
           /\ harness.draw.scaled.path = "simple" <=> ~AtOrAboveThreshold
           /\ harness.draw.scaled.path \in {"simple", "crop", "fallback"}
           /\ harness.draw.scaled.path = "crop"
                 => /\ 0 <= CropLeft /\ CropLeft < CropRight
                    /\ CropRight <= harness.image.original[1]
                    /\ 0 <= CropTop /\ CropTop < CropBottom
                    /\ CropBottom <= harness.image.original[2]
                    /\ RLt(Zero, harness.draw.scaled.width)
                    /\ RLt(Zero, harness.draw.scaled.height)
           /\ harness.draw.scaled.path # "crop" => FullSurfaceReturned

\* above the threshold, an image position that leaves nothing of the image in
\* the viewport made the function fall back to the full surface
C19_Witness ==
    /\ Scaled /\ AtOrAboveThreshold
    /\ harness.draw.scaled.path = "fallback" /\ FullSurfaceReturned
    /\ RLt(ViewportW, harness.draw.image_pos_x)

(***************************************************************************)
(* C20.  Placement of the crop: for every scale at or above the crop       *)
(* threshold, the surface and offset the crop path returns cover the whole *)
(* part of the scaled image visible in the viewport (adjusted offset <=    *)
(* max(imagePos, 0) and adjusted offset + final size >= min(imagePos +     *)
(* baseSize*scale, viewportSize) on both axes), and each crop pixel lands  *)
(* where the full-scale path puts it (adjusted offset = imagePos +         *)
(* cropOrigin*baseScale*scale).                                            *)
(* Amended: the far edge of the surface returned may fall short of the far *)
(* edge of the visible part, by less than one pixel: the final size is     *)
(* truncated to whole pixels.                                              *)
(***************************************************************************)
CropReturned == Scaled /\ AtOrAboveThreshold /\ harness.draw.scaled.path = "crop"

CropPlacedAsFullScale ==
    LET k == RMul(harness.image.scale, harness.scale)
    IN  /\ harness.draw.scaled.adjusted_pos_x
              = RAdd(harness.draw.image_pos_x, RMul(RInt(CropLeft), k))
        /\ harness.draw.scaled.adjusted_pos_y
              = RAdd(harness.draw.image_pos_y, RMul(RInt(CropTop), k))

\* the near edge of the surface returned is not inside the visible part
CropCoversNearEdges ==
    /\ RLe(harness.draw.scaled.adjusted_pos_x, RMax(harness.draw.image_pos_x, Zero))
    /\ RLe(harness.draw.scaled.adjusted_pos_y, RMax(harness.draw.image_pos_y, Zero))

\* how far the far edge of the surface returned falls short of the far edge of
\* the visible part, on each axis
ShortfallX ==
    RSub(RMin(RAdd(harness.draw.image_pos_x, RMul(BaseW, harness.scale)), ViewportW),
         RAdd(harness.draw.scaled.adjusted_pos_x, harness.draw.scaled.width))

ShortfallY ==
    RSub(RMin(RAdd(harness.draw.image_pos_y, RMul(BaseH, harness.scale)), ViewportH),
         RAdd(harness.draw.scaled.adjusted_pos_y, harness.draw.scaled.height))

C20_CropPlacementOriginal ==
    CropReturned
        => /\ CropPlacedAsFullScale
           /\ CropCoversNearEdges
           /\ RLe(ShortfallX, Zero) /\ RLe(ShortfallY, Zero)

C20_CropPlacementAmended ==
    CropReturned
        => /\ CropPlacedAsFullScale
           /\ CropCoversNearEdges
           /\ RLt(ShortfallX, One) /\ RLt(ShortfallY, One)

\* draw_frame at a zoom level above the threshold took a crop smaller than the
\* original whose bottom edge ends a fraction of a pixel above the viewport's
C20_Witness ==
    /\ CropReturned /\ harness.phase = "drawn"
    /\ CropLeft > 0 /\ CropTop > 0
    /\ CropRight < harness.image.original[1] /\ CropBottom < harness.image.original[2]
    /\ RLe(ShortfallX, Zero)
    /\ RLt(Zero, ShortfallY) /\ RLt(ShortfallY, One)

(***************************************************************************)
(* C21.  The viewer remains interactive: while the run loop keeps          *)
(* iterating and the clock advances, every transition that becomes active  *)
(* becomes inactive again, its completion reported in the iteration that   *)
(* ends it; no transition stays active forever; and the iteration after    *)
(* the completion reads the keys again.                                    *)
(***************************************************************************)
C21_CompletionReported ==
    /\ (is_active(tm) /\ ~is_active(tm')) => ev'.complete
    /\ ev'.complete => ~is_active(tm')
    /\ (~is_active(tm) /\ ev'.step # NoDir)
          => /\ ~ev'.active
             /\ ev'.input.is_animating /\ ev'.input.animation_start_time = ev'.t

C21_AlwaysInteractive ==
    /\ is_active(tm) ~> ~is_active(tm)
    /\ ~<>[](is_active(tm))
    /\ [][C21_CompletionReported]_vars

\* the six-frame transition has played to its end, and a later iteration has
\* taken a key press on the image it led to
C21_Witness ==
    /\ ev.op = "tick" /\ ~ev.active /\ ev.step = "in"
    /\ current_index = 1 /\ ~is_active(tm)
    /\ Len(tm.current_transition_frames) = 6
    /\ ev.input.is_animating /\ ev.input.animation_start_time = ev.t

(***************************************************************************)
(* C22.  zoom_step(direction) does not change scale: for 'in' it sets      *)
(* target_scale = scale * 1.3, for 'out' target_scale = scale / 1.3, sets  *)
(* start_scale = scale and is_animating = true, and scale stays as it was  *)
(* until the next update(); for any other argument it leaves every field   *)
(* of the controller unchanged.                                            *)
(***************************************************************************)
C22_StepEffect ==
    ev'.op = "zoom_step"
        => /\ zc'.scale = zc.scale
           /\ ev'.step = "in"
                 => zc'.target_scale =
                       MulRat(zc.scale, step_zoom_factor_num, step_zoom_factor_den)
           /\ ev'.step = "out"
                 => zc'.target_scale =
                       MulRat(zc.scale, step_zoom_factor_den, step_zoom_factor_num)
           /\ ev'.step \in Dirs
                 => /\ zc'.start_scale = zc.scale
                    /\ zc'.is_animating
                    /\ zc'.animation_start_time = now
                    /\ zc'.current_max_scale = zc.current_max_scale
                    /\ zc'.continuous_zoom_active = zc.continuous_zoom_active
           /\ ev'.step \notin Dirs => zc' = zc

C22_StepLeavesScale == [][C22_StepEffect]_vars

\* zoom_step('out') was called at scale 1.3 and the scale is still 1.3
C22_Witness ==
    /\ harness.kind = "controller" /\ ev.op = "zoom_step" /\ ev.step = "out"
    /\ zc.scale = (13 * Unit) \div 10 /\ zc.start_scale = zc.scale
    /\ zc.target_scale = Unit /\ zc.is_animating

(***************************************************************************)
(* C23.  At most one step animation exists at a time: a zoom_step issued   *)
(* while is_animating is true replaces the running animation; the          *)
(* interpolation restarts at the current, partially interpolated scale,    *)
(* with a new target computed from that scale and a fresh start time; the  *)
(* old target is discarded: nothing of the old animation is left in the    *)
(* controller, every later update() interpolates between the new start     *)
(* and the new target, and the animation ends at the new target.           *)
(***************************************************************************)
\* the controller z with no trace of an animation
AtRest(z) ==
    [z EXCEPT !.is_animating = FALSE, !.animation_start_time = None,
              !.target_scale = z.scale, !.start_scale = z.scale]

\* the animation the last zoom_step replaced, when it replaced one
Replaced == harness.replaced[1]

PartlyInterpolated(z) == z.scale # z.start_scale /\ z.scale # z.target_scale

C23_Replaces ==
    (ev'.op = "zoom_step" /\ ev'.step \in Dirs /\ zc.is_animating)
        => /\ zc' = zoom_step(AtRest(zc), ev'.step, now)
           /\ zc'.start_scale = zc.scale /\ zc'.animation_start_time = now
           /\ PartlyInterpolated(zc) => zc'.target_scale # zc.target_scale

C23_NewAnimationRuns ==
    (ev'.op = "update" /\ zc.is_animating)
        => /\ Between(zc.start_scale, zc'.scale, zc.target_scale)
           /\ zc'.start_scale = zc.start_scale /\ zc'.target_scale = zc.target_scale
           /\ (~zc'.is_animating /\ ev'.boundary = NoDir) => zc'.scale = zc.target_scale
           /\ zc'.is_animating => ev'.t - zc.animation_start_time < animation_duration

C23_OneAnimation ==
    harness.kind = "controller"
        => /\ zc.is_animating
                 => /\ zc.animation_start_time # None
                    /\ zc.animation_start_time <= now
           /\ (harness.replaced # << >> /\ PartlyInterpolated(Replaced)
                  /\ ev.op = "update" /\ ~zc.is_animating /\ ev.input.is_animating
                  /\ ev.boundary = NoDir)
                 => zc.scale = zc.target_scale /\ zc.scale # Replaced.target_scale

C23_StepReplacesAnimation ==
    [](C23_OneAnimation) /\ [][C23_Replaces /\ C23_NewAnimationRuns]_vars

\* a zoom-in toward 1.3 was a third of its way when zoom_step('out') replaced
\* it; the new animation has ended at its own target, below 1.0
C23_Witness ==
    /\ harness.kind = "controller" /\ harness.replaced # << >>
    /\ harness.direction = "out"
    /\ Replaced.target_scale = (13 * Unit) \div 10
    /\ Replaced.scale = (11 * Unit) \div 10
    /\ ev.op = "update" /\ ev.input.is_animating /\ ~zc.is_animating
    /\ zc.scale = zc.target_scale /\ zc.scale < Replaced.scale

(***************************************************************************)
(* C24.  Render-time scale range: in every state the renderer observes     *)
(* (the end of _update_state) in which no transition is active,            *)
(* min_scale <= scale <= current_max_scale, hence the normalized zoom      *)
(* passed to the projection lies in [0, 1].                                *)
(***************************************************************************)
\* get_normalized_zoom() on the controller z
NormalizedZoom(z) ==
    get_normalized_zoom(Rat(z.scale, Unit), Rat(z.current_max_scale, Unit))

C24_RenderTimeRange ==
    ~is_active(tm)
        => /\ min_scale <= zc.scale /\ zc.scale <= zc.current_max_scale
           /\ zc.current_max_scale # min_scale
                 => /\ NormalizedZoom(zc).error = NoError
                    /\ RLe(RInt(0), NormalizedZoom(zc).value)
                    /\ RLe(NormalizedZoom(zc).value, RInt(1))

\* a forward transition has landed on the image whose max_scale is 0.5: the
\* frame is drawn at scale 1.0, above current_max_scale
C24_Witness ==
    /\ ev.op = "tick" /\ ev.complete /\ ~is_active(tm)
    /\ current_index = 1 /\ tm.transition_direction = "forward"
    /\ zc.scale = min_scale /\ zc.current_max_scale = Unit \div 2
    /\ zc.scale > zc.current_max_scale

(***************************************************************************)
(* C25.  While a transition is active, update() reports no boundary event  *)
(* and start_transition is not called again: the start time, direction and *)
(* frame sequence of an active transition stay as they are until it        *)
(* completes, whatever input preceded the crossing, continuous zoom begun  *)
(* during a step animation included.                                       *)
(***************************************************************************)
C25_Undisturbed ==
    is_active(tm)
        => /\ ev'.boundary = NoDir
           /\ ~ev'.started
           /\ tm'.transition_start_time = tm.transition_start_time
           /\ tm'.transition_direction = tm.transition_direction
           /\ tm'.current_transition_frames = tm.current_transition_frames

C25_TransitionNotRestarted == [][C25_Undisturbed]_vars

\* a transition begun in an earlier iteration was begun again in this one:
\* update() returned 'forward' while it was active
C25_Witness ==
    /\ ev.op = "tick" /\ ev.active /\ ev.boundary = "forward" /\ ev.started
    /\ ev.step = NoDir /\ ev.cont = NoDir
    /\ is_active(tm) /\ tm.transition_start_time = ev.t
    /\ ev.input.continuous_zoom_active /\ ~ev.input.is_animating

(***************************************************************************)
(* C26.  The boundary check owed by zoom_continuous is performed in the    *)
(* update() of the same iteration and the flag is then cleared: after      *)
(* every update() call continuous_zoom_active is false, also when a step   *)
(* animation was active during that update.                                *)
(***************************************************************************)
C26_FlagClearedByUpdate ==
    ev.op = "tick" => ~ev.updated.continuous_zoom_active /\ ~zc.continuous_zoom_active

\* zoom_continuous was called while a step animation was running; update()
\* ran the animation and returned with the flag still set
C26_Witness ==
    /\ ev.op = "tick" /\ ev.cont = "in" /\ ev.step = NoDir
    /\ Animated(ev) /\ Elapsed(ev) > 200
    /\ ev.updated.continuous_zoom_active /\ zc.continuous_zoom_active

(***************************************************************************)
(* C27.  Whenever a transition is active, no step animation is in flight:  *)
(* every path that starts a transition has ended the step animation        *)
(* before, and no zoom_step is accepted until the transition completes.    *)
(***************************************************************************)
C27_NoAnimationInTransition ==
    /\ is_active(tm) => ~zc.is_animating
    /\ ev.started => ~ev.updated.is_animating

C27_NoStepUntilComplete ==
    is_active(tm)
        => /\ ev'.step = NoDir
           /\ ~ev'.input.is_animating /\ ~ev'.updated.is_animating /\ ~zc'.is_animating
           /\ zc'.animation_start_time = zc.animation_start_time

C27_TransitionExcludesAnimation ==
    [](C27_NoAnimationInTransition) /\ [][C27_NoStepUntilComplete]_vars

\* a step animation crossed max_scale before its end and started the
\* transition, which is now playing with the animation ended short of its target
C27_Witness ==
    /\ ev.op = "tick" /\ ev.started /\ is_active(tm)
    /\ Animated(ev) /\ Elapsed(ev) < animation_duration
    /\ ~zc.is_animating /\ zc.scale < zc.target_scale
    /\ zc.scale > zc.current_max_scale

(***************************************************************************)
(* C28.  Input is ignored during a transition: while is_active() is true   *)
(* a key press produces no zoom_step and a held key no zoom_continuous, so *)
(* from the start of a transition until its completion scale,              *)
(* target_scale, start_scale and is_animating do not change.               *)
(***************************************************************************)
C28_KeysIgnored ==
    is_active(tm)
        => /\ ev'.active /\ ev'.step = NoDir /\ ev'.cont = NoDir
           /\ ev'.input = zc
           /\ ev'.updated.scale = zc.scale
           /\ ev'.updated.target_scale = zc.target_scale
           /\ ev'.updated.start_scale = zc.start_scale
           /\ ev'.updated.is_animating = zc.is_animating
           /\ is_active(tm')
                 => /\ zc'.scale = zc.scale
                    /\ zc'.target_scale = zc.target_scale
                    /\ zc'.start_scale = zc.start_scale
                    /\ zc'.is_animating = zc.is_animating

C28_InputIgnoredInTransition == [][C28_KeysIgnored]_vars

\* the zoom-out key was pressed and the zoom-in key held in an iteration of a
\* playing transition, which plays on with the scale where the crossing left it
C28_Witness ==
    /\ harness.kind = "input" /\ harness.step = "out" /\ harness.cont = "in"
    /\ ev.op = "tick" /\ ev.active /\ is_active(tm)
    /\ tm.transition_frame_index > 0
    /\ ev.input = ev.updated /\ zc.scale > zc.current_max_scale
    /\ ~zc.is_animating

(***************************************************************************)
(* C29.  ZoomController.current_max_scale equals the max_scale of the      *)
(* catalog's current image in every state observed at the end of an        *)
(* iteration, from startup on and after any sequence of transitions in     *)
(* either direction.                                                       *)
(***************************************************************************)
C29_MaxScaleMirrorsImage ==
    /\ zc.current_max_scale = current_max(images, current_index)
    /\ ev.updated.current_max_scale = ev.input.current_max_scale

\* forward to the last image and back again: the backward transition has
\* landed on image 1 and current_max_scale is that image's 1.1
C29_Witness ==
    /\ ev.op = "tick" /\ ev.complete /\ tm.transition_direction = "backward"
    /\ current_index = 1
    /\ ev.input.current_max_scale = Unit
    /\ zc.current_max_scale = (11 * Unit) \div 10

(***************************************************************************)
(* C30.  Index synchronisation: after every iteration                      *)
(* TransitionManager.transition_idx equals ImageManager.current_index and  *)
(* both lie in [0, number of images); a transition is never started toward *)
(* an index outside that range, so set_image never rejects the index it is *)
(* given and a backward transition never reads transitions[-1].            *)
(***************************************************************************)
InCatalog(i) == 0 <= i /\ i < Len(images)

C30_InSync ==
    /\ tm.transition_idx = current_index
    /\ InCatalog(current_index)
    /\ Len(transitions) = Len(images)

C30_StartsTowardNeighbour ==
    /\ ev'.started
          => /\ ev'.boundary = "forward"
                   => InCatalog(current_index + 1) /\ InCatalog(tm.transition_idx)
             /\ ev'.boundary = "backward"
                   => InCatalog(current_index - 1) /\ InCatalog(tm.transition_idx - 1)
    /\ ev'.complete
          => /\ InCatalog(tm'.transition_idx)
             /\ current_index' = tm'.transition_idx
             /\ current_index' # current_index

C30_IndexSynchronisation == [](C30_InSync) /\ [][C30_StartsTowardNeighbour]_vars

\* a backward transition was started from image 1 and played transitions[0],
\* after a zoom-out below min_scale; both positions are now 0
C30_Witness ==
    /\ ev.op = "tick" /\ ev.complete /\ tm.transition_direction = "backward"
    /\ tm.transition_idx = 0 /\ current_index = 0
    /\ Len(tm.current_transition_frames) = 6
    /\ ev.updated.scale < min_scale

(***************************************************************************)
(* C31.  Transition sequence selection: a forward transition from image i  *)
(* plays the sequence attached to image i, a backward transition from      *)
(* image i+1 plays the sequence attached to image i; at the same elapsed   *)
(* time the backward playback shows the frame that mirrors the forward     *)
(* one (frame N-1-k for frame k), so forward from i and then backward from *)
(* i+1 plays the same frames in opposite order, and returns the catalog to *)
(* index i.                                                                *)
(***************************************************************************)
\* the frame a playback of sequence frames shows elapsed ms after its start
ForwardFrame(frames, elapsed) == frames[target_frame(elapsed) + 1]

MirroredFrame(frames, elapsed) == frames[Len(frames) - target_frame(elapsed)]

C31_SequencePlayed ==
    is_active(tm)
        => /\ tm.transition_direction = "forward"
                 => /\ tm.current_transition_frames = transitions[current_index + 1]
                    /\ get_current_frame(tm) =
                          ForwardFrame(transitions[current_index + 1],
                                       ev.t - tm.transition_start_time)
           /\ tm.transition_direction = "backward"
                 => /\ current_index >= 1
                    /\ tm.current_transition_frames = transitions[current_index]
                    /\ get_current_frame(tm) =
                          MirroredFrame(transitions[current_index],
                                        ev.t - tm.transition_start_time)

\* the iteration that started a transition took the sequence of the image the
\* transition leaves (forward) or of the one it goes back to (backward), also
\* when the sequence is empty and the transition is over at once
C31_SequenceChosen ==
    (ev.op = "tick" /\ ev.started)
        => LET source == IF ~ev.complete THEN current_index
                         ELSE IF ev.boundary = "forward" THEN current_index - 1
                         ELSE current_index + 1
           IN  /\ tm.transition_direction = ev.boundary
               /\ ev.boundary = "forward"
                     => tm.current_transition_frames = transitions[source + 1]
               /\ ev.boundary = "backward"
                     => source >= 1 /\ tm.current_transition_frames = transitions[source]

C31_ReturnsToSource ==
    ev'.complete
        => current_index' = IF tm'.transition_direction = "forward"
                            THEN current_index + 1 ELSE current_index - 1

C31_SequenceSelection ==
    [](C31_SequencePlayed /\ C31_SequenceChosen) /\ [][C31_ReturnsToSource]_vars

\* back from image 1: the backward transition plays the six frames attached
\* to image 0 and, 100 ms after its start, shows frame 3 of 1..6, where the
\* forward playback shows frame 4
C31_Witness ==
    /\ is_active(tm) /\ tm.transition_direction = "backward"
    /\ current_index = 1 /\ tm.transition_idx = 1
    /\ tm.current_transition_frames = transitions[1]
    /\ ev.t - tm.transition_start_time = 100
    /\ get_current_frame(tm) = 3
    /\ ForwardFrame(transitions[1], 100) = 4

(***************************************************************************)
(* C32.  Tap versus hold: check_continuous_zoom returns a zoom_continuous  *)
(* action for a key only if that key's last key-down was more than 200 ms  *)
(* ago, no key-up for it has been processed since, and the key is          *)
(* currently pressed; a key-down always yields exactly one zoom_step       *)
(* action; and a key released, also when its key-up event was discarded    *)
(* during a transition, never yields continuous zoom until it is pressed   *)
(* again.                                                                  *)
(***************************************************************************)
KeysFrameDone == harness.kind = "keys" /\ ev.op = "process_events"

\* the zoom_step actions a queue of events stands for, one per key-down
RECURSIVE StepsOf(_)
StepsOf(events) ==
    IF events = << >> THEN << >>
    ELSE IF events[1].type = "KEYDOWN"
    THEN << <<"zoom_step", KeyDirection(events[1].key)>> >> \o StepsOf(Tail(events))
    ELSE StepsOf(Tail(events))

C32_HoldOnly ==
    \A key \in KeySet :
        harness.continuous = KeyDirection(key)
            => /\ harness.down_at[key] # None
               /\ ev.t - harness.down_at[key] > key_delay
               /\ ~harness.up_processed[key]
               /\ harness.pressed[key]

C32_OneStepPerKeyDown == harness.actions = StepsOf(harness.events)

C32_ReleasedKeyIsQuiet ==
    \A key \in KeySet : ~harness.pressed[key] => harness.continuous # KeyDirection(key)

C32_TapVersusHold ==
    KeysFrameDone => (C32_HoldOnly /\ C32_OneStepPerKeyDown /\ C32_ReleasedKeyIsQuiet)

\* the zoom-in key went down again during a transition, 100 ms ago; its
\* key-down was discarded without a zoom_step, and now that the transition
\* is over check_continuous_zoom returns continuous zoom on the strength of an
\* earlier key-down
C32_Witness ==
    /\ KeysFrameDone /\ ~harness.active /\ harness.events = << >>
    /\ harness.continuous = "in" /\ harness.pressed["K_UP"]
    /\ ev.t - harness.down_at["K_UP"] = 100
    /\ harness.last_key_time["K_UP"] < harness.down_at["K_UP"]

(***************************************************************************)
(* C33.  The two target-rectangle encodings are equivalent: a normalized   *)
(* rect [x, y, w, h] and the absolute pixel rect [x*W, y*H, w*W, h*H] for  *)
(* an original image of size W x H are converted to the same base-space    *)
(* rectangle, the original-space rectangle multiplied by baseScale, and    *)
(* give the same max_scale; when both encodings are configured, the pixel  *)
(* rect is the one used.                                                   *)
(***************************************************************************)
RectsLoaded == harness.kind = "rect" /\ harness.phase = "loaded"

C33_EncodingsEquivalent ==
    RectsLoaded
        => /\ harness.normalized.surface # << >>
           /\ harness.normalized.surface = harness.pixel.surface
           /\ harness.normalized.original = harness.pixel.original
           /\ harness.pixel.original[1] =
                 RectData(PixelRect(harness.rect, harness.original)[1],
                          PixelRect(harness.rect, harness.original)[2],
                          PixelRect(harness.rect, harness.original)[3],
                          PixelRect(harness.rect, harness.original)[4])
           /\ harness.normalized.surface[1] =
                 scaled(harness.normalized.original[1], harness.normalized.image.scale)
           /\ harness.normalized.image.max_scale = harness.pixel.image.max_scale
           /\ harness.normalized.image.error = harness.pixel.image.error
           /\ harness.both.surface = harness.pixel.surface
           /\ harness.both.original = harness.pixel.original
           /\ harness.both.image.max_scale = harness.pixel.image.max_scale

\* a 1200 x 1200 image in an 800 x 600 viewport (baseScale 1/2): nextRect
\* [1/2, 1/4, 1/4, 1/8] and nextPixelRect [600, 300, 300, 150] both give the
\* base-space rectangle (300, 150, 150, 75) and max_scale 16/3, also with
\* another nextRect beside the pixel rect
C33_Witness ==
    /\ RectsLoaded
    /\ harness.viewport_dims = <<800, 600>> /\ harness.original = <<1200, 1200>>
    /\ harness.rect = <<Rat(1,2), Rat(1,4), Rat(1,4), Rat(1,8)>>
    /\ harness.other # harness.rect
    /\ harness.pixel.original[1] = RectData(RInt(600), RInt(300), RInt(300), RInt(150))
    /\ harness.normalized.surface[1] = RectData(RInt(300), RInt(150), RInt(150), RInt(75))
    /\ harness.both.surface = harness.normalized.surface
    /\ harness.both.image.max_scale = Rat(16, 3)

(***************************************************************************)
(* C34.  In the single-directory TransitionManager and in the single-file  *)
(* viewer's loop, a transition started when no transition frames were      *)
(* loaded still completes: update() and handle_transition_animation        *)
(* report completion on their first call, in the pass of the loop that     *)
(* started the transition, rather than leaving is_transitioning true.      *)
(***************************************************************************)
PygameRunDone == harness.kind = "pygame" /\ ev.op = "run"

C34_EmptyTransitionCompletes ==
    (PygameRunDone /\ harness.started /\ Len(harness.v.transition_frames) = 0)
        => /\ ~harness.v.is_transitioning
           /\ harness.complete
           /\ ~harness.manager.is_transitioning

\* no frames were loaded and a transition started 450 ms ago or earlier is
\* still active in the viewer and in the manager, which has not reported
\* completion, while a zoom key is down
C34_Witness ==
    /\ PygameRunDone
    /\ Len(harness.v.transition_frames) = 0
    /\ ~harness.started
    /\ harness.v.is_transitioning /\ harness.manager.is_transitioning
    /\ ~harness.complete
    /\ ev.t - harness.v.transition_start_time >= 450
    /\ \E key \in KeySet : harness.pressed[key]

(***************************************************************************)
(* C35.  In the single-file viewer's loop the boundary check runs after    *)
(* the final scale mutation of a step animation too: when                  *)
(* handle_step_animation ends an animation (progress >= 1) at a target     *)
(* above max_scale or below min_scale, the swap or clamp happens in that   *)
(* same pass, so the frame it draws has a transition active or a scale     *)
(* within [min_scale, max_scale].                                          *)
(***************************************************************************)
PygameInRange ==
    /\ min_scale <= harness.v.scale
    /\ harness.v.scale <= harness.v.images[harness.v.current_index + 1]

C35_CheckedAtCompletion ==
    (PygameRunDone /\ harness.finished)
        => (harness.v.is_transitioning \/ PygameInRange)

\* the step animation from 1.0 to 1.3 on image 0 (max_scale 1.2) has ended at
\* its target: the frame is drawn at scale 1.3 with no transition and no
\* animation active
C35_Witness ==
    /\ PygameRunDone /\ harness.finished
    /\ harness.v.current_index = 0
    /\ harness.v.scale = (13 * Unit) \div 10
    /\ harness.v.scale > harness.v.images[1]
    /\ ~harness.v.is_transitioning /\ ~harness.v.is_animating

(***************************************************************************)
(* C36.  The prefetch frame cache is bounded under concurrency: for every  *)
(* interleaving of the main thread's load_frame calls and the preload      *)
(* workers, whenever the lock is free surface_cache holds at most          *)
(* CACHE_SIZE entries, cache_order contains no index twice, and the        *)
(* indices in cache_order are the keys of surface_cache.                   *)
(***************************************************************************)
CacheThreads == {MainThread} \cup Workers

C36_CacheBounded ==
    (harness.kind = "cache" /\ harness.preload_lock = NoThread)
        => /\ Cardinality(harness.surface_cache) <= CACHE_SIZE
           /\ \A j, k \in 1..Len(harness.cache_order) :
                 harness.cache_order[j] = harness.cache_order[k] => j = k
           /\ {harness.cache_order[k] : k \in 1..Len(harness.cache_order)}
                 = harness.surface_cache

\* the lock is free, the cache is full, frame 0 has been evicted, and the
\* main thread and two workers are all about to enter load_frame
C36_Witness ==
    /\ harness.kind = "cache" /\ harness.preload_lock = NoThread
    /\ Cardinality(harness.surface_cache) = CACHE_SIZE
    /\ 0 \notin harness.surface_cache
    /\ harness.threads[MainThread].pc = "acquire"
    /\ harness.threads[1].pc = "acquire"
    /\ harness.threads[2].pc = "acquire"
    /\ harness.threads[1].frame_index # harness.threads[2].frame_index

(***************************************************************************)
(* C37.  The prefetch frame cache evicts in least-recently-used order: a   *)
(* cache hit in load_frame moves the index to the most-recent end of       *)
(* cache_order, a miss appends it, each eviction removes the index that    *)
(* was least recently loaded or hit, and the frame load_frame returns is   *)
(* never the one that call evicts.                                         *)
(***************************************************************************)
\* load_frame is about to return a surface: its index is the newest entry and
\* cache_order is the order of last use
C37_UsedIsNewest ==
    \A th \in CacheThreads :
        (harness.threads[th].pc = "release" /\ harness.threads[th].surface # "none")
            => /\ harness.cache_order # << >>
               /\ harness.cache_order[Len(harness.cache_order)] = harness.threads[th].frame_index
               /\ harness.threads[th].frame_index \in harness.surface_cache
               /\ harness.cache_order = harness.recency

\* load_frame has popped an entry: it is the least recently used one, and
\* not the frame being loaded
C37_EvictsLeastRecent ==
    \A th \in CacheThreads :
        harness.threads[th].pc = "del"
            => /\ harness.threads[th].oldest = harness.recency[1]
               /\ harness.threads[th].oldest # harness.threads[th].frame_index

C37_LRUEviction ==
    harness.kind = "cache" => (C37_UsedIsNewest /\ C37_EvictsLeastRecent)

\* an eviction that is not first-in first-out: the entry popped is the least
\* recently used one while an older loaded frame, hit since, stays cached
C37_Witness ==
    /\ harness.kind = "cache"
    /\ \E th \in CacheThreads :
          /\ harness.threads[th].pc = "del"
          /\ harness.threads[th].oldest = harness.recency[1]
          /\ harness.threads[th].oldest # harness.loaded[1]
          /\ harness.loaded[1] \in harness.surface_cache

====
